---- MODULE Spec2Model ----
(***************************************************************************)
(* A model of the storage-engine core of bustub: the extendible hash       *)
(* table used as page table, the LRU-K replacer, and the buffer pool       *)
(* manager instance built on both.                                         *)
(***************************************************************************)
EXTENDS Integers, Sequences, FiniteSets, TLC

(***************************************************************************)
(* Bounds of the model.                                                    *)
(***************************************************************************)
\* pool_size_ of the buffer pool under test (frames 0..PoolSize-1)
PoolSize == 2
\* largest pin count a page is driven to
MaxPin == 2
\* largest byte value a caller writes into a page (0 is the zeroed page)
MaxByte == 1
\* replacer_k / k_ of the replacer
LRUK == 2
\* bucket_size_ of the page table
BucketSize == 1
\* local depth of a refusing bucket at which an Insert is reported as not
\* terminating: the hash bits of the keys are used up
MaxDepth == 3
\* largest bucket_size a hash table is constructed with
MaxBucketSize == 2
\* largest key given to a hash table on its own (below 2^MaxDepth)
MaxKey == 5
\* leaf_max_size and internal_max_size of the B+ tree under test
LeafMaxSize == 2
InternalMaxSize == 2
\* keys 1 .. MaxTreeKey and values 0 .. MaxTreeValue are given to the B+ tree
MaxTreeKey == 5
MaxTreeValue == 1
MaxTreePages == 7
MaxPinnedTreePages == 4
\* trie keys are the strings of 1 .. MaxKeyLen characters out of 1 .. MaxChar,
\* given with the values 0 .. MaxTrieValue
MaxChar == 2
MaxKeyLen == 2
MaxTrieValue == 1

INVALID_PAGE_ID == -1
\* a null Page pointer / an unset frame id
NoFrame == -1
\* no bytes recorded
NoByte == -1

\* AllocatePage hands out one page id more than there are frames
MaxPages == PoolSize + 1
\* the access counter of a pinned frame's node is driven up to k_
MaxAccess == LRUK
\* callers write bytes into the pages with ids below WritablePages
WritablePages == 1
Frames == 0 .. (PoolSize - 1)
PageIds == 0 .. (MaxPages - 1)
Bytes == 0 .. MaxByte

RECURSIVE Pow2(_)
Pow2(n) == IF n <= 0 THEN 1 ELSE 2 * Pow2(n - 1)

(***************************************************************************)
(* Extendible hash table (page table).  A table is a record                *)
(*   global_depth, bucket_size_, dir (slot i of the code is dir[i+1],      *)
(*   holding a bucket number), buckets (bucket number -> [size_, depth,    *)
(*   list]), num_buckets, looping (the split loop of Insert did not end    *)
(*   within MaxDepth).                                                     *)
(***************************************************************************)
\* std::hash<int> is the identity on the non-negative keys used here
Hash(key) == key

\* Bucket::Bucket
NewBucket(array_size, depth) == [size_ |-> array_size, depth |-> depth, list |-> <<>>]

\* ExtendibleHashTable::ExtendibleHashTable
NewTableOf(bucket_size) ==
  [global_depth |-> 0,
   bucket_size_ |-> bucket_size,
   dir          |-> <<1>>,
   buckets      |-> <<NewBucket(bucket_size, 0)>>,
   num_buckets  |-> 1,
   looping      |-> FALSE]

\* the page table of the buffer pool
NewTable == NewTableOf(BucketSize)

IndexOf(t, key) == Hash(key) % Pow2(t.global_depth)

GetIndexBucket(t, dir_index) == t.dir[dir_index + 1]

\* position of key in a bucket list, 0 when absent (first match)
RECURSIVE ListPos(_, _, _)
ListPos(list, key, i) ==
  IF i > Len(list) THEN 0
  ELSE IF list[i][1] = key THEN i
  ELSE ListPos(list, key, i + 1)

BucketIsFull(b) == Len(b.list) >= b.size_

\* Bucket::Find : <<found, value>>
BucketFind(b, key) ==
  LET p == ListPos(b.list, key, 1)
  IN  IF p = 0 THEN <<FALSE, NoFrame>> ELSE <<TRUE, b.list[p][2]>>

\* Bucket::Remove : the list without the first entry of key
BucketRemove(b, key) ==
  LET p == ListPos(b.list, key, 1)
  IN  IF p = 0 THEN b
      ELSE [b EXCEPT !.list = SubSeq(b.list, 1, p - 1) \o SubSeq(b.list, p + 1, Len(b.list))]

\* Bucket::Insert : <<ok, bucket>>; a full bucket refuses before looking for the key
BucketInsert(b, key, value) ==
  IF BucketIsFull(b) THEN <<FALSE, b>>
  ELSE LET p == ListPos(b.list, key, 1)
       IN  IF p # 0 THEN <<TRUE, [b EXCEPT !.list[p] = <<key, value>>]>>
           ELSE <<TRUE, [b EXCEPT !.list = Append(b.list, <<key, value>>)]>>

TableFind(t, key) == BucketFind(t.buckets[GetIndexBucket(t, IndexOf(t, key))], key)

TableContains(t, key) == TableFind(t, key)[1]

\* faulty variant: Remove looks in directory slot 0 whatever the key
TableRemoveSlot0(t, key) ==
  LET bn == GetIndexBucket(t, 0)
  IN  [t EXCEPT !.buckets[bn] = BucketRemove(t.buckets[bn], key)]

TableRemove(t, key) ==
  LET bn == GetIndexBucket(t, IndexOf(t, key))
  IN  [t EXCEPT !.buckets[bn] = BucketRemove(t.buckets[bn], key)]

\* the items taken out of a split bucket go back through the directory;
\* a refused insert is dropped, as the code ignores its result
RECURSIVE Redistribute(_, _, _)
Redistribute(t, list, i) ==
  IF i > Len(list) THEN t
  ELSE LET bn == GetIndexBucket(t, IndexOf(t, list[i][1]))
           r  == BucketInsert(t.buckets[bn], list[i][1], list[i][2])
       IN  Redistribute([t EXCEPT !.buckets[bn] = r[2]], list, i + 1)

\* faulty variant: a split leaves num_buckets_ as it was
SplitBucketKeepsCount(t, key) ==
  LET bn     == GetIndexBucket(t, IndexOf(t, key))
      list   == t.buckets[bn].list
      old    == t.buckets[bn].depth
      grow   == old = t.global_depth
      dir1   == IF grow THEN t.dir \o t.dir ELSE t.dir
      gd1    == IF grow THEN t.global_depth + 1 ELSE t.global_depth
      first  == Hash(key) % Pow2(old)
      depth  == old + 1
      moved  == {i \in (first + 1) .. (Len(dir1) - 1) :
                    /\ i % Pow2(depth - 1) = first
                    /\ i % Pow2(depth) # first}
      build  == moved # {}
      nb     == Len(t.buckets) + 1
      dir2   == [j \in 1 .. Len(dir1) |-> IF (j - 1) \in moved THEN nb ELSE dir1[j]]
      bs1    == [t.buckets EXCEPT ![bn] = [@ EXCEPT !.depth = depth, !.list = <<>>]]
      bs2    == IF build THEN Append(bs1, NewBucket(t.bucket_size_, depth)) ELSE bs1
      t1     == [global_depth |-> gd1,
                 bucket_size_ |-> t.bucket_size_,
                 dir          |-> dir2,
                 buckets      |-> bs2,
                 num_buckets  |-> t.num_buckets,
                 looping      |-> t.looping]
  IN  Redistribute(t1, list, 1)

\* one pass of the body of the while loop of Insert on the full bucket of key
SplitBucket(t, key) ==
  LET bn     == GetIndexBucket(t, IndexOf(t, key))
      list   == t.buckets[bn].list
      old    == t.buckets[bn].depth
      grow   == old = t.global_depth
      dir1   == IF grow THEN t.dir \o t.dir ELSE t.dir
      gd1    == IF grow THEN t.global_depth + 1 ELSE t.global_depth
      first  == Hash(key) % Pow2(old)
      depth  == old + 1
      moved  == {i \in (first + 1) .. (Len(dir1) - 1) :
                    /\ i % Pow2(depth - 1) = first
                    /\ i % Pow2(depth) # first}
      build  == moved # {}
      nb     == Len(t.buckets) + 1
      dir2   == [j \in 1 .. Len(dir1) |-> IF (j - 1) \in moved THEN nb ELSE dir1[j]]
      bs1    == [t.buckets EXCEPT ![bn] = [@ EXCEPT !.depth = depth, !.list = <<>>]]
      bs2    == IF build THEN Append(bs1, NewBucket(t.bucket_size_, depth)) ELSE bs1
      t1     == [global_depth |-> gd1,
                 bucket_size_ |-> t.bucket_size_,
                 dir          |-> dir2,
                 buckets      |-> bs2,
                 num_buckets  |-> IF build THEN t.num_buckets + 1 ELSE t.num_buckets,
                 looping      |-> t.looping]
  IN  Redistribute(t1, list, 1)

RECURSIVE TableInsert(_, _, _)
TableInsert(t, key, value) ==
  LET bn == GetIndexBucket(t, IndexOf(t, key))
      r  == BucketInsert(t.buckets[bn], key, value)
  IN  IF r[1] THEN [t EXCEPT !.buckets[bn] = r[2]]
      ELSE IF t.buckets[bn].depth >= MaxDepth THEN [t EXCEPT !.looping = TRUE]
      ELSE TableInsert(SplitBucket(t, key), key, value)

\* faulty variant: the replacer is built one frame smaller than the pool
NewReplacerOneShort(num_frames, k) ==
  [replacer_size_     |-> num_frames - 1,
   k_                 |-> k,
   curr_history_size_ |-> 0,
   curr_buffer_size_  |-> 0,
   entries_           |-> <<>>,
   history            |-> <<>>,
   buffer             |-> <<>>,
   broken             |-> FALSE]

(***************************************************************************)
(* LRU-K replacer.  A replacer is a record                                 *)
(*   replacer_size_, k_, curr_history_size_, curr_buffer_size_,            *)
(*   entries_ (frame id -> [value_, evictable_], the tracked frames),      *)
(*   history / buffer: the nodes linked between dummy_history_ and         *)
(*   dummy_buffer_, resp. between dummy_buffer_ and dummy_history_, front  *)
(*   first, and broken: a dummy node was handed out as victim.             *)
(***************************************************************************)
NewReplacer(num_frames, k) ==
  [replacer_size_     |-> num_frames,
   k_                 |-> k,
   curr_history_size_ |-> 0,
   curr_buffer_size_  |-> 0,
   entries_           |-> <<>>,
   history            |-> <<>>,
   buffer             |-> <<>>,
   broken             |-> FALSE]

\* faulty variant: Size counts the history list only
SizeHistoryOnly(r) == r.curr_history_size_

Size(r) == r.curr_history_size_ + r.curr_buffer_size_

Tracked(r, f) == f \in DOMAIN r.entries_

IsEvictable(r, f) == Tracked(r, f) /\ r.entries_[f].evictable_

RECURSIVE Without(_, _)
Without(seq, x) ==
  IF seq = <<>> THEN <<>>
  ELSE IF Head(seq) = x THEN Without(Tail(seq), x)
  ELSE <<Head(seq)>> \o Without(Tail(seq), x)

InSeq(seq, x) == \E i \in 1 .. Len(seq) : seq[i] = x

RemoveFromPool(r, f) ==
  [r EXCEPT !.history = Without(r.history, f), !.buffer = Without(r.buffer, f)]

PushFrontHistoryPool(r, f) == [r EXCEPT !.history = <<f>> \o r.history]

\* faulty variant: the node is linked behind dummy_history_
PushFrontWrongPool(r, f) == [r EXCEPT !.history = <<f>> \o r.history]

PushFrontBufferPool(r, f) == [r EXCEPT !.buffer = <<f>> \o r.buffer]

\* faulty variant: EvictInternal takes the node at the front of the list
EvictVictimFront(r) ==
  IF r.curr_history_size_ # 0
  THEN IF r.history # <<>> THEN r.history[1] ELSE NoFrame
  ELSE IF r.buffer # <<>> THEN r.buffer[1] ELSE NoFrame

\* the node EvictInternal picks: dummy_buffer_->prev_ when the history counter
\* is not zero, else dummy_history_->prev_; NoFrame when that is a dummy node
EvictVictim(r) ==
  IF r.curr_history_size_ # 0
  THEN IF r.history # <<>> THEN r.history[Len(r.history)] ELSE NoFrame
  ELSE IF r.buffer # <<>> THEN r.buffer[Len(r.buffer)] ELSE NoFrame

\* faulty variant: the victim's node keeps its access count
EvictKeepsCount(r) ==
  IF Size(r) = 0 THEN [ok |-> FALSE, frame_id |-> NoFrame, r |-> r]
  ELSE LET node == EvictVictim(r)
           r1   == IF r.curr_history_size_ # 0
                   THEN [r EXCEPT !.curr_history_size_ = @ - 1]
                   ELSE [r EXCEPT !.curr_buffer_size_ = @ - 1]
       IN  IF node = NoFrame
           THEN [ok |-> TRUE, frame_id |-> 0, r |-> [r1 EXCEPT !.broken = TRUE]]
           ELSE [ok       |-> TRUE,
                 frame_id |-> node,
                 r        |-> [RemoveFromPool(r1, node) EXCEPT
                                 !.entries_[node].evictable_ = FALSE]]

\* EvictInternal : [ok, frame_id, r]
EvictInternal(r) ==
  IF Size(r) = 0 THEN [ok |-> FALSE, frame_id |-> NoFrame, r |-> r]
  ELSE LET node == EvictVictim(r)
           r1   == IF r.curr_history_size_ # 0
                   THEN [r EXCEPT !.curr_history_size_ = @ - 1]
                   ELSE [r EXCEPT !.curr_buffer_size_ = @ - 1]
       IN  IF node = NoFrame
           THEN [ok |-> TRUE, frame_id |-> 0, r |-> [r1 EXCEPT !.broken = TRUE]]
           ELSE [ok       |-> TRUE,
                 frame_id |-> node,
                 r        |-> [RemoveFromPool(r1, node) EXCEPT
                                 !.entries_[node] = [value_ |-> 0, evictable_ |-> FALSE]]]

\* faulty variant: a frame already in the buffer list keeps its place
RecordAccessStays(r, f) ==
  IF ~Tracked(r, f)
  THEN [r EXCEPT !.entries_ = (f :> [value_ |-> 1, evictable_ |-> FALSE]) @@ r.entries_]
  ELSE LET v  == r.entries_[f].value_ + 1
           r1 == [r EXCEPT !.entries_[f].value_ = v]
       IN  IF r.entries_[f].evictable_ /\ v = r.k_
           THEN LET r3 == PushFrontBufferPool(RemoveFromPool(r1, f), f)
                IN  [r3 EXCEPT !.curr_history_size_ = @ - 1, !.curr_buffer_size_ = @ + 1]
           ELSE r1

\* faulty variant: a frame that reaches k_ accesses changes list and the
\* counters stay as they were
RecordAccessKeepsCounters(r, f) ==
  IF ~Tracked(r, f)
  THEN [r EXCEPT !.entries_ = (f :> [value_ |-> 1, evictable_ |-> FALSE]) @@ r.entries_]
  ELSE LET v  == r.entries_[f].value_ + 1
           r1 == [r EXCEPT !.entries_[f].value_ = v]
       IN  IF r.entries_[f].evictable_ /\ v >= r.k_
           THEN PushFrontBufferPool(RemoveFromPool(r1, f), f)
           ELSE r1

RecordAccess(r, f) ==
  IF ~Tracked(r, f)
  THEN [r EXCEPT !.entries_ = (f :> [value_ |-> 1, evictable_ |-> FALSE]) @@ r.entries_]
  ELSE LET v  == r.entries_[f].value_ + 1
           r1 == [r EXCEPT !.entries_[f].value_ = v]
       IN  IF r.entries_[f].evictable_ /\ v >= r.k_
           THEN LET r2 == IF v = r.k_
                          THEN [r1 EXCEPT !.curr_history_size_ = @ - 1]
                          ELSE [r1 EXCEPT !.curr_buffer_size_ = @ - 1]
                    r3 == PushFrontBufferPool(RemoveFromPool(r2, f), f)
                IN  [r3 EXCEPT !.curr_buffer_size_ = @ + 1]
           ELSE r1

\* the while loop of SetEvictable: evict until Size() < replacer_size_
RECURSIVE EvictWhileFull(_)
EvictWhileFull(r) ==
  IF Size(r) >= r.replacer_size_ /\ Size(r) > 0
  THEN EvictWhileFull(EvictInternal(r).r)
  ELSE r

\* faulty variant: a frame made non-evictable keeps its access count
SetEvictableKeepsCount(r, f, set_evictable) ==
  IF ~Tracked(r, f) THEN r
  ELSE IF r.entries_[f].evictable_ /\ ~set_evictable
  THEN LET r1 == IF r.entries_[f].value_ >= r.k_
                 THEN [r EXCEPT !.curr_buffer_size_ = @ - 1]
                 ELSE [r EXCEPT !.curr_history_size_ = @ - 1]
       IN  [RemoveFromPool(r1, f) EXCEPT !.entries_[f].evictable_ = FALSE]
  ELSE IF ~r.entries_[f].evictable_ /\ set_evictable
  THEN LET r1 == EvictWhileFull(r)
           r2 == [r1 EXCEPT !.entries_[f].evictable_ = TRUE]
       IN  IF r2.entries_[f].value_ >= r2.k_
           THEN [PushFrontBufferPool(r2, f) EXCEPT !.curr_buffer_size_ = @ + 1]
           ELSE [PushFrontHistoryPool(r2, f) EXCEPT !.curr_history_size_ = @ + 1]
  ELSE r

SetEvictable(r, f, set_evictable) ==
  IF ~Tracked(r, f) THEN r
  ELSE IF r.entries_[f].evictable_ /\ ~set_evictable
  THEN LET r1 == IF r.entries_[f].value_ >= r.k_
                 THEN [r EXCEPT !.curr_buffer_size_ = @ - 1]
                 ELSE [r EXCEPT !.curr_history_size_ = @ - 1]
       IN  [RemoveFromPool(r1, f) EXCEPT
              !.entries_[f] = [value_ |-> 0, evictable_ |-> FALSE]]
  ELSE IF ~r.entries_[f].evictable_ /\ set_evictable
  THEN LET r1 == EvictWhileFull(r)
           r2 == [r1 EXCEPT !.entries_[f].evictable_ = TRUE]
       IN  IF r2.entries_[f].value_ >= r2.k_
           THEN [PushFrontBufferPool(r2, f) EXCEPT !.curr_buffer_size_ = @ + 1]
           ELSE [PushFrontHistoryPool(r2, f) EXCEPT !.curr_history_size_ = @ + 1]
  ELSE r

\* faulty variant: Remove erases the node and leaves the counters
RemoveKeepsCounters(r, f) ==
  IF ~Tracked(r, f) THEN r
  ELSE [RemoveFromPool(r, f) EXCEPT
          !.entries_ = [g \in (DOMAIN r.entries_) \ {f} |-> r.entries_[g]]]

Remove(r, f) ==
  IF ~Tracked(r, f) THEN r
  ELSE LET r1 == IF r.entries_[f].evictable_
                 THEN RemoveFromPool(
                        IF r.entries_[f].value_ >= r.k_
                        THEN [r EXCEPT !.curr_buffer_size_ = @ - 1]
                        ELSE [r EXCEPT !.curr_history_size_ = @ - 1], f)
                 ELSE r
       IN  [r1 EXCEPT !.entries_ = [g \in (DOMAIN r.entries_) \ {f} |-> r.entries_[g]]]

(***************************************************************************)
(* Trie (p0_trie.h).  The trie is a function from the paths that lead to a *)
(* node (the root is the empty path) to the node; a node's children_ are   *)
(* the paths one character longer.  with_value is the node's dynamic type  *)
(* TrieNodeWithValue<T>.                                                   *)
(***************************************************************************)
TrieChars == 1 .. MaxChar
TrieKeys == UNION {[1 .. n -> TrieChars] : n \in 1 .. MaxKeyLen}
TrieValues == 0 .. MaxTrieValue

\* TrieNode(char)
TrieNode == [is_end_ |-> FALSE, with_value |-> FALSE, value_ |-> 0]

\* TrieNodeWithValue(char, T) and TrieNodeWithValue(TrieNode &&, T)
TrieNodeWithValue(value) == [is_end_ |-> TRUE, with_value |-> TRUE, value_ |-> value]

\* Trie::Trie()
NewTrie == (<<>> :> TrieNode)

Prefix(key, n) == SubSeq(key, 1, n)

\* TrieNode::HasChildren
HasChildren(t, path) == \E c \in TrieChars : Append(path, c) \in DOMAIN t

\* Trie::Insert: <<the bool it returns, the trie afterwards>>
TrieInsert(t, key, value) ==
  IF key = <<>> THEN <<FALSE, t>>
  ELSE LET n == Len(key)
           missing == {Prefix(key, i) : i \in 1 .. n - 1} \ DOMAIN t
           walked == t @@ [p \in missing |-> TrieNode]
           node == Prefix(key, n - 1)
       IN  IF key \notin DOMAIN walked
           THEN <<TRUE, [(walked @@ (key :> TrieNodeWithValue(value)))
                           EXCEPT ![node].is_end_ = FALSE]>>
           ELSE IF ~walked[key].is_end_
           THEN <<TRUE, [walked EXCEPT ![key] = TrieNodeWithValue(value)]>>
           ELSE <<FALSE, walked>>

\* the lambda dfs of Trie::Remove on the node at Prefix(key, i)
RECURSIVE dfs(_, _, _)
dfs(t, key, i) ==
  IF Prefix(key, i) \notin DOMAIN t THEN <<FALSE, t>>
  ELSE IF i = Len(key) THEN <<TRUE, [t EXCEPT ![key].is_end_ = FALSE]>>
  ELSE LET r == dfs(t, key, i + 1)
           subnode == Prefix(key, i + 1)
       IN  IF ~r[1] THEN <<FALSE, r[2]>>
           ELSE IF ~HasChildren(r[2], subnode) /\ ~r[2][subnode].is_end_
           THEN <<TRUE, [p \in (DOMAIN r[2]) \ {subnode} |-> r[2][p]]>>
           ELSE <<TRUE, r[2]>>

\* Trie::Remove: <<the bool it returns, the trie afterwards>>
TrieRemove(t, key) == IF key = <<>> THEN <<FALSE, t>> ELSE dfs(t, key, 1)

\* Trie::GetValue<T>: <<success, the value it returns>>
TrieGetValue(t, key) ==
  IF key = <<>> \/ key \notin DOMAIN t THEN <<FALSE, 0>>
  ELSE IF ~t[key].with_value THEN <<FALSE, 0>>
  ELSE <<TRUE, t[key].value_>>

(***************************************************************************)
(* Buffer pool manager instance.                                           *)
(***************************************************************************)
VARIABLES
  pages_,        \* frame -> [page_id_, pin_count_, is_dirty_, data_]
  free_list_,    \* sequence of frame ids, front first
  page_table_,   \* extendible hash table page id -> frame id
  replacer_,     \* LRU-K replacer
  next_page_id_, \* AllocatePage counter
  disk,          \* disk manager: page id -> bytes last written (0: never written)
  ret,           \* what the call that completed last returned
  evicted,       \* history: page id -> the bytes it held when it was last evicted
                 \* dirty, NoByte once it is resident again
  fa,            \* the thread inside FlushAllPgsImp: [pc, i, page_id]
  access_log,    \* history: the frame ids of the accesses the replacer has on
                 \* record, oldest first (one entry per unit of a node's value_)
  lru1,          \* the caller running scenario LRU-1: [todo, tail, out, done]
  latest,        \* history: key -> the value of the last Insert of the key into
                 \* the container driven on its own (hash table, B+ tree),
                 \* NoFrame when none or removed since
  tree,          \* the B+ tree: [root_page_id_, header, pages, pin, stray, crashed]
  root_          \* the trie: path -> [is_end_, with_value, value_]

vars == <<pages_, free_list_, page_table_, replacer_, next_page_id_, disk, ret, evicted, fa,
          access_log, lru1, latest, tree, root_>>

\* the variables the buffer pool's own operations leave alone
aux == <<access_log, lru1, latest, tree, root_>>

\* the variables the replacer's own operations leave alone
besideReplacer ==
  <<pages_, free_list_, page_table_, next_page_id_, disk, evicted, fa, lru1, latest, tree, root_>>

bpm == <<pages_, free_list_, page_table_, replacer_, next_page_id_, disk>>

\* Page::ResetMemory and the metadata of a frame that holds no page
EmptyPage == [page_id_ |-> INVALID_PAGE_ID, pin_count_ |-> 0, is_dirty_ |-> FALSE, data_ |-> 0]

\* return values: a Page pointer (the frame it points to), a null pointer, a bool
RetPage(f) == [ok |-> TRUE, frame |-> f]

RetNull == [ok |-> FALSE, frame |-> NoFrame]

RetBool(b) == [ok |-> b, frame |-> NoFrame]

FaIdle == [pc |-> "idle", i |-> 0, page_id |-> INVALID_PAGE_ID]

RECURSIVE Iota(_, _)
Iota(i, n) == IF i >= n THEN <<>> ELSE <<i>> \o Iota(i + 1, n)

Init ==
  /\ pages_ = [f \in Frames |-> EmptyPage]
  /\ free_list_ = Iota(0, PoolSize)
  /\ page_table_ = NewTable
  /\ replacer_ = NewReplacer(PoolSize, LRUK)
  /\ next_page_id_ = 0
  /\ disk = [p \in PageIds |-> 0]
  /\ ret = RetBool(FALSE)
  /\ evicted = [p \in PageIds |-> NoByte]
  /\ fa = FaIdle
  /\ access_log = <<>>
  /\ lru1 = [todo |-> <<>>, tail |-> <<>>, out |-> <<>>, done |-> FALSE]
  /\ latest = <<>>
  /\ tree = <<>>
  /\ root_ = NewTrie

Resident(page_id) == TableContains(page_table_, page_id)

FrameOf(page_id) == TableFind(page_table_, page_id)[2]

WriteCall(page_id, data) == [call |-> "WritePage", page_id |-> page_id, data |-> data]

ReadCall(page_id, data) == [call |-> "ReadPage", page_id |-> page_id, data |-> data]

\* faulty variant: the victim is never written back
VictimWritesNothing(page) == <<>>

\* the write-back of GetAvailableFrame for the evicted frame's page
VictimWrites(page) ==
  IF page.is_dirty_ THEN <<WriteCall(page.page_id_, page.data_)>> ELSE <<>>

\* GetAvailableFrame on the current state:
\* [ok, frame_id, free_list, replacer, pages, page_table, disk, io, victim]
\* (victim: the page the frame held when it was taken from the replacer)
GetAvailableFrame ==
  IF free_list_ # <<>>
  THEN [ok |-> TRUE, frame_id |-> Head(free_list_), free_list |-> Tail(free_list_),
        replacer |-> replacer_, pages |-> pages_, page_table |-> page_table_,
        disk |-> disk, io |-> <<>>, victim |-> EmptyPage]
  ELSE LET e == EvictInternal(replacer_)
       IN  IF e.ok
           THEN LET f  == e.frame_id
                    w  == VictimWrites(pages_[f])
                IN  [ok |-> TRUE, frame_id |-> f, free_list |-> free_list_,
                     replacer |-> e.r,
                     pages |-> [pages_ EXCEPT ![f].is_dirty_ =
                                  IF w # <<>> THEN FALSE ELSE @],
                     page_table |-> TableRemove(page_table_, pages_[f].page_id_),
                     disk |-> IF w # <<>>
                              THEN [disk EXCEPT ![w[1].page_id] = w[1].data]
                              ELSE disk,
                     io |-> w, victim |-> pages_[f]]
           ELSE [ok |-> FALSE, frame_id |-> NoFrame, free_list |-> free_list_,
                 replacer |-> replacer_, pages |-> pages_, page_table |-> page_table_,
                 disk |-> disk, io |-> <<>>, victim |-> EmptyPage]

\* the history variable after a frame was obtained for page_id
Evicted(victim, page_id) ==
  LET e == IF victim.is_dirty_ /\ victim.page_id_ \in PageIds
           THEN [evicted EXCEPT ![victim.page_id_] = victim.data_]
           ELSE evicted
  IN  [e EXCEPT ![page_id] = NoByte]

\* faulty variant: the pin records the access and leaves the evictable flag
PinWithoutSetEvictable(r, f) == RecordAccess(r, f)

\* RecordAccess followed by SetEvictable(frame_id, false): the pin of NewPgImp/FetchPgImp
PinInReplacer(r, f) == SetEvictable(RecordAccess(r, f), f, FALSE)

NewPgImp ==
  /\ next_page_id_ < MaxPages   \* bound on the page ids handed out
  /\ LET g == GetAvailableFrame
     IN  IF ~g.ok
         THEN /\ ret' = RetNull
              /\ UNCHANGED <<bpm, evicted>>
         ELSE LET f   == g.frame_id
                  pid == next_page_id_
              IN  /\ next_page_id_' = next_page_id_ + 1
                  /\ pages_' = [g.pages EXCEPT ![f] =
                        [page_id_ |-> pid, pin_count_ |-> 1, is_dirty_ |-> FALSE, data_ |-> 0]]
                  /\ page_table_' = TableInsert(g.page_table, pid, f)
                  /\ replacer_' = PinInReplacer(g.replacer, f)
                  /\ free_list_' = g.free_list
                  /\ disk' = g.disk
                  /\ evicted' = Evicted(g.victim, pid)
                  /\ ret' = RetPage(f)
  /\ UNCHANGED fa
  /\ UNCHANGED aux

\* the data a ReadPage of page_id delivers
ReadPage(d, page_id) == d[page_id]

\* faulty variant: ResetMemory runs after ReadPage
LoadedPageReset(page_id, data) ==
  [page_id_ |-> page_id, pin_count_ |-> 1, is_dirty_ |-> FALSE, data_ |-> 0]

\* the frame FetchPgImp leaves after loading page_id: metadata reset, memory
\* reset and then filled by ReadPage, pin count raised to 1
LoadedPage(page_id, data) ==
  [page_id_ |-> page_id, pin_count_ |-> 1, is_dirty_ |-> FALSE, data_ |-> data]

\* callers fetch page ids that AllocatePage has handed out; the pin count and
\* the access counter of a pinned frame are bounded by MaxPin and MaxAccess
FetchPgImp(page_id) ==
  /\ page_id < next_page_id_
  /\ IF Resident(page_id)
     THEN LET f == FrameOf(page_id)
          IN  /\ pages_[f].pin_count_ < MaxPin
              /\ pages_[f].pin_count_ > 0 => replacer_.entries_[f].value_ < MaxAccess
              /\ replacer_' = PinInReplacer(replacer_, f)
              /\ pages_' = [pages_ EXCEPT ![f].pin_count_ = @ + 1]
              /\ ret' = RetPage(f)
              /\ UNCHANGED <<free_list_, page_table_, next_page_id_, disk, evicted>>
     ELSE LET g == GetAvailableFrame
          IN  IF ~g.ok
              THEN /\ ret' = RetNull
                   /\ UNCHANGED <<bpm, evicted>>
              ELSE LET f == g.frame_id
                   IN  /\ pages_' = [g.pages EXCEPT ![f] =
                             LoadedPage(page_id, ReadPage(g.disk, page_id))]
                       /\ page_table_' = TableInsert(g.page_table, page_id, f)
                       /\ replacer_' = PinInReplacer(g.replacer, f)
                       /\ free_list_' = g.free_list
                       /\ disk' = g.disk
                       /\ evicted' = Evicted(g.victim, page_id)
                       /\ ret' = RetPage(f)
                       /\ UNCHANGED next_page_id_
  /\ UNCHANGED fa
  /\ UNCHANGED aux

\* whether UnpinPgImp goes past its two early returns
UnpinAccepts(page_id) == Resident(page_id) /\ pages_[FrameOf(page_id)].pin_count_ > 0

\* faulty variant: every successful unpin hands the frame to the replacer
UnpinAlwaysEvictable(pin_count) == TRUE

\* whether UnpinPgImp hands the frame to the replacer: the count it left is 0
UnpinMakesEvictable(pin_count) == pin_count = 0

\* faulty variant: the dirty flag is assigned from the argument
UnpinDirtyAssign(old, is_dirty) == is_dirty

\* the dirty flag UnpinPgImp leaves
UnpinDirty(old, is_dirty) == IF is_dirty THEN is_dirty ELSE old

UnpinPgImp(page_id, is_dirty) ==
  /\ IF ~UnpinAccepts(page_id)
     THEN /\ ret' = RetBool(FALSE)
          /\ UNCHANGED bpm
     ELSE LET f == FrameOf(page_id)
              n == pages_[f].pin_count_ - 1
          IN  /\ replacer_' = IF UnpinMakesEvictable(n)
                              THEN SetEvictable(replacer_, f, TRUE)
                              ELSE replacer_
              /\ pages_' = [pages_ EXCEPT ![f].pin_count_ = n,
                                          ![f].is_dirty_ = UnpinDirty(@, is_dirty)]
              /\ ret' = RetBool(TRUE)
              /\ UNCHANGED <<free_list_, page_table_, next_page_id_, disk>>
  /\ UNCHANGED <<fa, evicted>>
  /\ UNCHANGED aux

\* FlushPgImp on pages ps and disk d: [ok, pages, disk, io]
FlushPg(ps, d, page_id) ==
  IF ~Resident(page_id)
  THEN [ok |-> FALSE, pages |-> ps, disk |-> d, io |-> <<>>]
  ELSE LET f == FrameOf(page_id)
       IN  [ok    |-> TRUE,
            pages |-> [ps EXCEPT ![f].is_dirty_ = FALSE],
            disk  |-> [d EXCEPT ![page_id] = ps[f].data_],
            io    |-> <<WriteCall(page_id, ps[f].data_)>>]

FlushPgImp(page_id) ==
  /\ LET r == FlushPg(pages_, disk, page_id)
     IN  /\ pages_' = r.pages
         /\ disk' = r.disk
         /\ ret' = RetBool(r.ok)
  /\ UNCHANGED <<free_list_, page_table_, replacer_, next_page_id_, fa, evicted>>
  /\ UNCHANGED aux

\* the loop of FlushAllPgsImp from frame i on, run by one thread with no other
\* thread in the pool: [pages, disk, io]
RECURSIVE FlushAllFrom(_, _, _, _)
FlushAllFrom(i, ps, d, w) ==
  IF i >= PoolSize THEN [pages |-> ps, disk |-> d, io |-> w]
  ELSE IF ps[i].page_id_ = INVALID_PAGE_ID THEN FlushAllFrom(i + 1, ps, d, w)
  ELSE LET r == FlushPg(ps, d, ps[i].page_id_)
       IN  FlushAllFrom(i + 1, r.pages, r.disk, w \o r.io)

FlushAllPgsImp ==
  /\ fa.pc = "idle"
  /\ LET r == FlushAllFrom(0, pages_, disk, <<>>)
     IN  /\ pages_' = r.pages
         /\ disk' = r.disk
  /\ ret' = RetBool(TRUE)
  /\ UNCHANGED <<free_list_, page_table_, replacer_, next_page_id_, fa, evicted>>
  /\ UNCHANGED aux

\* faulty variant: DeletePgImp does not look at the pin count
DeleteIgnoresPin(page_id) == Resident(page_id)

\* whether DeletePgImp goes past its two early returns
DeleteProceeds(page_id) == Resident(page_id) /\ pages_[FrameOf(page_id)].pin_count_ <= 0

\* what DeletePgImp returns
DeleteResult(page_id) == ~Resident(page_id) \/ pages_[FrameOf(page_id)].pin_count_ <= 0

DeletePgImp(page_id) ==
  /\ IF ~DeleteProceeds(page_id)
     THEN UNCHANGED bpm
     ELSE LET f == FrameOf(page_id)
          IN  /\ page_table_' = TableRemove(page_table_, page_id)
              /\ replacer_' = Remove(replacer_, f)
              /\ free_list_' = Append(free_list_, f)
              /\ pages_' = [pages_ EXCEPT ![f] = EmptyPage]
              /\ UNCHANGED <<next_page_id_, disk>>
  /\ ret' = RetBool(DeleteResult(page_id))
  /\ UNCHANGED <<fa, evicted>>
  /\ UNCHANGED aux

\* a caller that holds a pin writes bytes through the borrowed handle
WriteData(f, b) ==
  /\ pages_[f].pin_count_ > 0
  /\ pages_[f].page_id_ < WritablePages
  /\ pages_[f].data_ # b
  /\ pages_' = [pages_ EXCEPT ![f].data_ = b]
  /\ UNCHANGED <<free_list_, page_table_, replacer_, next_page_id_, disk, ret, evicted, fa>>
  /\ UNCHANGED aux

Next ==
  \/ NewPgImp
  \/ \E p \in PageIds : FetchPgImp(p)
  \/ \E p \in PageIds, d \in BOOLEAN : UnpinPgImp(p, d)
  \/ \E p \in PageIds : FlushPgImp(p)
  \/ FlushAllPgsImp
  \/ \E p \in PageIds : DeletePgImp(p)
  \/ \E f \in Frames, b \in Bytes : WriteData(f, b)

Spec == Init /\ [][Next]_vars

(***************************************************************************)
(* Properties of the buffer pool (specification Spec).                     *)
(***************************************************************************)
InFreeList(f) == InSeq(free_list_, f)

HoldsResidentPage(f) ==
  /\ pages_[f].page_id_ # INVALID_PAGE_ID
  /\ Resident(pages_[f].page_id_)
  /\ FrameOf(pages_[f].page_id_) = f

FrameIsFree(f) ==
  /\ InFreeList(f)
  /\ pages_[f].page_id_ = INVALID_PAGE_ID
  /\ pages_[f].pin_count_ = 0
  /\ ~IsEvictable(replacer_, f)

FrameIsPinned(f) ==
  /\ ~InFreeList(f)
  /\ HoldsResidentPage(f)
  /\ pages_[f].pin_count_ > 0
  /\ ~IsEvictable(replacer_, f)

FrameIsEvictable(f) ==
  /\ ~InFreeList(f)
  /\ HoldsResidentPage(f)
  /\ pages_[f].pin_count_ = 0
  /\ IsEvictable(replacer_, f)

FrameStates(f) ==
  {s \in {"free", "pinned", "evictable"} :
     \/ s = "free" /\ FrameIsFree(f)
     \/ s = "pinned" /\ FrameIsPinned(f)
     \/ s = "evictable" /\ FrameIsEvictable(f)}

TableEntries(t) ==
  {<<b, i>> : b \in 1 .. Len(t.buckets), i \in 1 .. BucketSize} \cap
  {e \in (1 .. Len(t.buckets)) \X (1 .. BucketSize) : e[2] <= Len(t.buckets[e[1]].list)}

AllPinned == \A f \in Frames : pages_[f].pin_count_ > 0

NothingAvailable == free_list_ = <<>> /\ \A f \in Frames : ~IsEvictable(replacer_, f)

MissCall == NewPgImp \/ \E p \in PageIds : (~Resident(p) /\ FetchPgImp(p))

\* C4: NewPage, and FetchPage of a non-resident page, return null exactly when
\* the free list is empty and no frame is evictable (all frames pinned), and a
\* null return leaves the pool as it was, next_page_id_ included.
C4_NullWhenAllPinned ==
  [][MissCall =>
       /\ (ret' = RetNull) <=> NothingAvailable
       /\ (ret' = RetNull) <=> AllPinned
       /\ (ret' = RetNull) => UNCHANGED bpm]_vars

\* a call has just returned null with every frame pinned
C4_Witness == ret = RetNull /\ AllPinned /\ next_page_id_ < MaxPages

\* a step by which frame f stops holding the dirty page it held
DropsDirtyPage(f) ==
  /\ pages_[f].is_dirty_
  /\ pages_[f].page_id_ # INVALID_PAGE_ID
  /\ pages_'[f].page_id_ # pages_[f].page_id_

WrittenBack(f) == disk'[pages_[f].page_id_] = pages_[f].data_

\* C5 as stated: whenever a dirty frame stops holding its page, by eviction or
\* by DeletePage, the page's bytes have been written to disk.
C5_Original ==
  [][\A f \in Frames : DropsDirtyPage(f) => WrittenBack(f)]_vars

\* C5 amended: a dirty page evicted by NewPage/FetchPage is written to disk before
\* its frame is reused; DeletePage of an unpinned dirty page issues no write.
C5_DirtyEvictionWritesBack ==
  [][/\ (NewPgImp \/ \E p \in PageIds : FetchPgImp(p)) =>
          \A f \in Frames : DropsDirtyPage(f) => WrittenBack(f)
     /\ (\E p \in PageIds : DeletePgImp(p)) => disk' = disk]_vars

\* a page was evicted dirty with bytes that differ from the zeroed page
C5_Witness == \E p \in PageIds : evicted[p] \in Bytes \ {0} /\ disk[p] = evicted[p]

\* C6: a page evicted dirty is on disk with the bytes it had at eviction and has
\* no page-table entry; the FetchPage that brings it back returns a frame
\* holding those bytes with pin_count 1 and is_dirty false.
C6_EvictionRoundTrip ==
  /\ [](\A p \in PageIds :
          evicted[p] # NoByte => (~Resident(p) /\ disk[p] = evicted[p]))
  /\ [][\A p \in PageIds :
          (evicted[p] # NoByte /\ FetchPgImp(p) /\ ret' # RetNull) =>
             pages_'[ret'.frame] = [page_id_ |-> p, pin_count_ |-> 1, is_dirty_ |-> FALSE,
                              data_ |-> evicted[p]]]_vars

\* page 0 is back in a frame with the non-zero bytes written before its eviction,
\* clean and pinned once, after every page id was handed out
C6_Witness ==
  \E f \in Frames :
    /\ pages_[f] = [page_id_ |-> 0, pin_count_ |-> 1, is_dirty_ |-> FALSE, data_ |-> MaxByte]
    /\ ret = RetPage(f)
    /\ next_page_id_ = MaxPages
    /\ disk[0] = MaxByte

\* C7: UnpinPage returns false and changes nothing when the page is not resident
\* or has pin count 0; else it returns true, lowers the pin count by 1, makes
\* the frame evictable iff the count reached 0 and leaves is_dirty as
\* (old is_dirty or the argument).
C7_Unpin ==
  [][\A p \in PageIds, d \in BOOLEAN :
       UnpinPgImp(p, d) =>
         IF ~Resident(p) \/ pages_[FrameOf(p)].pin_count_ = 0
         THEN ret' = RetBool(FALSE) /\ UNCHANGED bpm
         ELSE LET f == FrameOf(p)
              IN  /\ ret' = RetBool(TRUE)
                  /\ pages_'[f].pin_count_ = pages_[f].pin_count_ - 1
                  /\ IsEvictable(replacer_, f)' <=> pages_'[f].pin_count_ = 0
                  /\ pages_'[f].is_dirty_ = (pages_[f].is_dirty_ \/ d)
                  /\ pages_'[f].page_id_ = p
                  /\ pages_'[f].data_ = pages_[f].data_
                  /\ \A g \in Frames \ {f} : pages_'[g] = pages_[g]
                  /\ UNCHANGED <<free_list_, page_table_, next_page_id_, disk>>]_vars

\* a page unpinned down to 0 keeps the dirty flag while another is still pinned
C7_Witness ==
  \E f, g \in Frames :
    /\ pages_[f].is_dirty_ /\ pages_[f].pin_count_ = 0 /\ IsEvictable(replacer_, f)
    /\ pages_[g].pin_count_ = 1 /\ pages_[g].is_dirty_
    /\ ret = RetBool(TRUE)

\* C8: DeletePage returns true and changes nothing for a non-resident page,
\* false and changes nothing for a pinned page; else it returns true, removes the
\* page-table entry and the replacer node (Size one less), resets the frame and
\* appends it to the free list; a later FetchPage of the page reads the disk.
C8_Delete ==
  [][/\ \A p \in PageIds :
          DeletePgImp(p) =>
            IF ~Resident(p) THEN ret' = RetBool(TRUE) /\ UNCHANGED bpm
            ELSE IF pages_[FrameOf(p)].pin_count_ > 0 THEN ret' = RetBool(FALSE) /\ UNCHANGED bpm
            ELSE LET f == FrameOf(p)
                 IN  /\ ret' = RetBool(TRUE)
                     /\ ~Resident(p)'
                     /\ ~Tracked(replacer_', f)
                     /\ Size(replacer_') = Size(replacer_) - 1
                     /\ pages_'[f] = EmptyPage
                     /\ free_list_' = Append(free_list_, f)
                     /\ \A g \in Frames \ {f} : pages_'[g] = pages_[g]
                     /\ \A q \in PageIds \ {p} : Resident(q)' <=> Resident(q)
                     /\ UNCHANGED <<next_page_id_, disk>>
     /\ \A p \in PageIds :
          (~Resident(p) /\ FetchPgImp(p) /\ ret' # RetNull) =>
             /\ pages_'[ret'.frame].page_id_ = p
             /\ pages_'[ret'.frame].data_ = disk[p]]_vars

\* a frame freed by DeletePage is last in the free list, its page held non-zero
\* bytes only in memory before
C8_Witness ==
  /\ free_list_ # <<>>
  /\ pages_[free_list_[Len(free_list_)]] = EmptyPage
  /\ next_page_id_ = MaxPages
  /\ ret = RetBool(TRUE)
  /\ ~Resident(0)
  /\ evicted[0] = MaxByte

(***************************************************************************)
(* Threads (specification SpecConc).  NewPgImp, FetchPgImp, UnpinPgImp,    *)
(* FlushPgImp and DeletePgImp each hold latch_ from entry to return and    *)
(* are one step.  FlushAllPgsImp takes no latch: its loop test and its     *)
(* read of pages_[i].page_id_ are steps of their own, and only the         *)
(* FlushPgImp it calls runs under the latch.                               *)
(***************************************************************************)
FlushAllEnter ==
  /\ fa.pc = "idle"
  /\ fa' = [pc |-> "loop", i |-> 0, page_id |-> INVALID_PAGE_ID]
  /\ UNCHANGED <<bpm, ret, evicted>>
  /\ UNCHANGED aux

\* page_id_t page_id = pages_[i].GetPageId(), read without the latch
FlushAllRead ==
  /\ fa.pc = "loop"
  /\ fa.i < PoolSize
  /\ LET page_id == pages_[fa.i].page_id_
     IN  fa' = IF page_id # INVALID_PAGE_ID
               THEN [fa EXCEPT !.pc = "flush", !.page_id = page_id]
               ELSE [fa EXCEPT !.i = @ + 1]
  /\ UNCHANGED <<bpm, ret, evicted>>
  /\ UNCHANGED aux

\* the call FlushPgImp(page_id) inside the loop
FlushAllFlush ==
  /\ fa.pc = "flush"
  /\ LET r == FlushPg(pages_, disk, fa.page_id)
     IN  /\ pages_' = r.pages
         /\ disk' = r.disk
         /\ ret' = RetBool(r.ok)
  /\ fa' = [pc |-> "loop", i |-> fa.i + 1, page_id |-> INVALID_PAGE_ID]
  /\ UNCHANGED <<free_list_, page_table_, replacer_, next_page_id_, evicted>>
  /\ UNCHANGED aux

FlushAllReturn ==
  /\ fa.pc = "loop"
  /\ fa.i >= PoolSize
  /\ fa' = FaIdle
  /\ UNCHANGED <<bpm, ret, evicted>>
  /\ UNCHANGED aux

\* beside the flushing thread the other threads hold at most one pin per page
ConcBound == \A f \in Frames : pages_[f].pin_count_ <= 1

NextConc ==
  \/ FlushAllEnter
  \/ FlushAllRead
  \/ FlushAllFlush
  \/ FlushAllReturn
  \/ NewPgImp
  \/ \E p \in PageIds : FetchPgImp(p) /\ ConcBound'
  \/ \E p \in PageIds, d \in BOOLEAN : UnpinPgImp(p, d)
  \/ \E p \in PageIds : FlushPgImp(p)
  \/ \E p \in PageIds : DeletePgImp(p)

SpecConc == Init /\ [][NextConc]_vars

\* C9: every public operation is one atomic step under the latch; for
\* FlushAllPages this means the page id its scan read from frame i is the page
\* frame i holds when that page is flushed, and the flush finds it resident.
C9_FlushAllAtomic ==
  fa.pc = "flush" => (pages_[fa.i].page_id_ = fa.page_id /\ Resident(fa.page_id))

(***************************************************************************)
(* The replacer on its own (specification SpecReplacer): a replacer of     *)
(* PoolSize frames driven through its public methods.  The code checks no  *)
(* frame id, and the header calls a frame id invalid when it is larger     *)
(* than replacer_size_, so the ids 0 .. PoolSize are used.                 *)
(***************************************************************************)
ReplacerFrames == 0 .. PoolSize

\* the accesses still on record after a call: an eviction, a pin
\* (SetEvictable false) and Remove clear the node's access count
Recorded(r, log) ==
  LET Kept(g) == Tracked(r, g) /\ r.entries_[g].value_ > 0
  IN  SelectSeq(log, Kept)

\* LRUKReplacer::Evict : the victim's frame id, or failure
Evict ==
  /\ LET e == EvictInternal(replacer_)
     IN  /\ replacer_' = e.r
         /\ ret' = IF e.ok THEN RetPage(e.frame_id) ELSE RetNull
         /\ access_log' = Recorded(e.r, access_log)
  /\ UNCHANGED besideReplacer

RecordAccessCall(f) ==
  /\ Tracked(replacer_, f) => replacer_.entries_[f].value_ <= LRUK
  /\ replacer_' = RecordAccess(replacer_, f)
  /\ ret' = RetBool(TRUE)
  /\ access_log' = Append(access_log, f)
  /\ UNCHANGED besideReplacer

SetEvictableCall(f, set_evictable) ==
  /\ replacer_' = SetEvictable(replacer_, f, set_evictable)
  /\ ret' = RetBool(TRUE)
  /\ access_log' = Recorded(replacer_', access_log)
  /\ UNCHANGED besideReplacer

RemoveCall(f) ==
  /\ replacer_' = Remove(replacer_, f)
  /\ ret' = RetBool(TRUE)
  /\ access_log' = Recorded(replacer_', access_log)
  /\ UNCHANGED besideReplacer

NextReplacer ==
  \/ Evict
  \/ \E f \in ReplacerFrames : RecordAccessCall(f)
  \/ \E f \in ReplacerFrames, b \in BOOLEAN : SetEvictableCall(f, b)
  \/ \E f \in ReplacerFrames : RemoveCall(f)

SpecReplacer == Init /\ [][NextReplacer]_vars

EvictableCount(r) == Cardinality({f \in DOMAIN r.entries_ : r.entries_[f].evictable_})

\* the parts of C10 that do not depend on the replacer being full
SizeSteps ==
  /\ \A f \in ReplacerFrames :
       (SetEvictableCall(f, FALSE) /\ IsEvictable(replacer_, f)) =>
          Size(replacer_') = Size(replacer_) - 1
  /\ (Evict /\ ret'.ok) => Size(replacer_') = Size(replacer_) - 1
  /\ \A f \in ReplacerFrames :
       (RemoveCall(f) /\ IsEvictable(replacer_, f)) =>
          Size(replacer_') = Size(replacer_) - 1
  /\ \A f \in ReplacerFrames :
       RecordAccessCall(f) => Size(replacer_') = Size(replacer_)

BecomesEvictable(f) ==
  SetEvictableCall(f, TRUE) /\ Tracked(replacer_, f) /\ ~IsEvictable(replacer_, f)

AccessCount(log, f) == Cardinality({i \in 1 .. Len(log) : log[i] = f})

\* the timestamp (place in the log) of the earliest access of f on record
FirstAccess(log, f) ==
  CHOOSE i \in 1 .. Len(log) : log[i] = f /\ \A j \in 1 .. (i - 1) : log[j] # f

\* the timestamp of the k-th most recent access of f
KthRecentAccess(log, f, k) ==
  CHOOSE i \in 1 .. Len(log) :
    log[i] = f /\ Cardinality({j \in i .. Len(log) : log[j] = f}) = k

EvictableFrames(r) == {f \in DOMAIN r.entries_ : r.entries_[f].evictable_}

\* the evictable frames with fewer than K accesses (backward K-distance +inf)
FewerThanK(r, log) == {f \in EvictableFrames(r) : AccessCount(log, f) < r.k_}

\* the evictable frames with at least K accesses
AtLeastK(r, log) == {f \in EvictableFrames(r) : AccessCount(log, f) >= r.k_}

\* the log holds exactly the accesses the nodes count
LogMatchesCounters ==
  \A f \in ReplacerFrames :
    AccessCount(access_log, f) =
      IF Tracked(replacer_, f) THEN replacer_.entries_[f].value_ ELSE 0

\* C11: when some evictable frame has fewer than K recorded accesses, Evict
\* returns such a frame, and among them the one whose earliest recorded access is
\* the oldest, whatever the order in which the frames were made evictable.
C11_FewerThanKFirst ==
  [][(Evict /\ FewerThanK(replacer_, access_log) # {}) =>
       /\ ret'.ok
       /\ ret'.frame \in FewerThanK(replacer_, access_log)
       /\ \A g \in FewerThanK(replacer_, access_log) :
            (AccessCount(access_log, g) > 0 /\ AccessCount(access_log, ret'.frame) > 0) =>
               FirstAccess(access_log, ret'.frame) <= FirstAccess(access_log, g)]_vars

\* C12: when every evictable frame has at least K recorded accesses, Evict
\* returns the one whose K-th most recent access is the earliest (the maximum
\* backward K-distance).
C12_MaxBackwardKDistance ==
  [][(Evict /\ EvictableFrames(replacer_) # {} /\ FewerThanK(replacer_, access_log) = {}) =>
       /\ ret'.ok
       /\ ret'.frame \in AtLeastK(replacer_, access_log)
       /\ \A g \in AtLeastK(replacer_, access_log) :
            KthRecentAccess(access_log, ret'.frame, replacer_.k_)
              <= KthRecentAccess(access_log, g, replacer_.k_)]_vars

\* C14: Evict returns false iff Size() = 0 and then changes nothing; when it
\* returns true the frame was evictable before the call, Size() drops by 1, and
\* the frame's node stays tracked with evictable false, access count 0 and in
\* neither list; a frame becomes evictable again only through SetEvictable(f, true).
C14_Evict ==
  /\ [](~replacer_.broken)
  /\ [][/\ Evict =>
             /\ ret'.ok <=> Size(replacer_) # 0
             /\ ~ret'.ok => replacer_' = replacer_
             /\ ret'.ok =>
                  /\ IsEvictable(replacer_, ret'.frame)
                  /\ Size(replacer_') = Size(replacer_) - 1
                  /\ Tracked(replacer_', ret'.frame)
                  /\ replacer_'.entries_[ret'.frame] = [value_ |-> 0, evictable_ |-> FALSE]
                  /\ ~InSeq(replacer_'.history, ret'.frame)
                  /\ ~InSeq(replacer_'.buffer, ret'.frame)
                  /\ AccessCount(access_log', ret'.frame) = 0
        /\ \A f \in ReplacerFrames :
             (~IsEvictable(replacer_, f) /\ IsEvictable(replacer_', f)) =>
                SetEvictableCall(f, TRUE)]_vars

\* a frame was evicted while others stay evictable, and its node is still there
C14_Witness ==
  /\ ret.ok
  /\ ret.frame \in ReplacerFrames
  /\ Tracked(replacer_, ret.frame)
  /\ replacer_.entries_[ret.frame] = [value_ |-> 0, evictable_ |-> FALSE]
  /\ Size(replacer_) > 0
  /\ replacer_.buffer # <<>>

\* C15: Remove of an unknown frame changes nothing; Remove of an evictable
\* frame unlinks it, lowers Size() by 1 and forgets its accesses; Remove of a
\* tracked non-evictable frame is signalled as an error and leaves the node and
\* its access history in place.
C15_Remove ==
  [][\A f \in ReplacerFrames :
       RemoveCall(f) =>
         /\ ~Tracked(replacer_, f) => replacer_' = replacer_
         /\ IsEvictable(replacer_, f) =>
              /\ ~Tracked(replacer_', f)
              /\ ~InSeq(replacer_'.history, f)
              /\ ~InSeq(replacer_'.buffer, f)
              /\ Size(replacer_') = Size(replacer_) - 1
              /\ AccessCount(access_log', f) = 0
         /\ (Tracked(replacer_, f) /\ ~IsEvictable(replacer_, f)) =>
              /\ ~ret'.ok
              /\ replacer_' = replacer_
              /\ access_log' = access_log]_vars

(***************************************************************************)
(* Scenario LRU-1 (specification SpecLRU1): a replacer of LRU1Frames       *)
(* frames with K = LRU1K, and a caller that records accesses to frames     *)
(* 1..6, makes them evictable, accesses 1, 2, 3, 4, then makes four more   *)
(* accesses and evicts until Evict fails.  The scenario's last four        *)
(* accesses are 5, 6, 1, 1; the caller is run with every choice of four    *)
(* accesses among the frames 1, 5 and 6.                                   *)
(***************************************************************************)
LRU1Frames == 7

LRU1K == 2

LRU1Last == 6

LRU1Access(f) == [op |-> "RecordAccess", frame_id |-> f]

LRU1Evictable(f) == [op |-> "SetEvictable", frame_id |-> f]

LRU1Head ==
  [i \in 1 .. LRU1Last |-> LRU1Access(i)]
    \o [i \in 1 .. LRU1Last |-> LRU1Evictable(i)]
    \o <<LRU1Access(1), LRU1Access(2), LRU1Access(3), LRU1Access(4)>>

LRU1Tail == <<5, 6, 1, 1>>

LRU1Tails == [1 .. Len(LRU1Tail) -> {1, 5, 6}]

LRU1Script(tail) == LRU1Head \o [i \in 1 .. Len(tail) |-> LRU1Access(tail[i])]

InitLRU1 ==
  /\ pages_ = [f \in Frames |-> EmptyPage]
  /\ free_list_ = Iota(0, PoolSize)
  /\ page_table_ = NewTable
  /\ replacer_ = NewReplacer(LRU1Frames, LRU1K)
  /\ next_page_id_ = 0
  /\ disk = [p \in PageIds |-> 0]
  /\ ret = RetBool(FALSE)
  /\ evicted = [p \in PageIds |-> NoByte]
  /\ fa = FaIdle
  /\ access_log = <<>>
  /\ \E tail \in LRU1Tails :
       lru1 = [todo |-> LRU1Script(tail), tail |-> tail, out |-> <<>>, done |-> FALSE]
  /\ latest = <<>>
  /\ tree = <<>>
  /\ root_ = NewTrie

\* the variables the caller of the scenario leaves alone
besideLRU1 ==
  <<pages_, free_list_, page_table_, next_page_id_, disk, evicted, fa, latest, tree, root_>>

LRU1RecordAccess ==
  /\ lru1.todo # <<>>
  /\ Head(lru1.todo).op = "RecordAccess"
  /\ replacer_' = RecordAccess(replacer_, Head(lru1.todo).frame_id)
  /\ access_log' = Append(access_log, Head(lru1.todo).frame_id)
  /\ ret' = RetBool(TRUE)
  /\ lru1' = [lru1 EXCEPT !.todo = Tail(@)]
  /\ UNCHANGED besideLRU1

LRU1SetEvictable ==
  /\ lru1.todo # <<>>
  /\ Head(lru1.todo).op = "SetEvictable"
  /\ replacer_' = SetEvictable(replacer_, Head(lru1.todo).frame_id, TRUE)
  /\ access_log' = Recorded(replacer_', access_log)
  /\ ret' = RetBool(TRUE)
  /\ lru1' = [lru1 EXCEPT !.todo = Tail(@)]
  /\ UNCHANGED besideLRU1

LRU1Evict ==
  /\ lru1.todo = <<>>
  /\ ~lru1.done
  /\ LET e == EvictInternal(replacer_)
     IN  /\ replacer_' = e.r
         /\ access_log' = Recorded(e.r, access_log)
         /\ ret' = IF e.ok THEN RetPage(e.frame_id) ELSE RetNull
         /\ lru1' = IF e.ok THEN [lru1 EXCEPT !.out = Append(@, e.frame_id)]
                             ELSE [lru1 EXCEPT !.done = TRUE]
  /\ UNCHANGED besideLRU1

NextLRU1 ==
  \/ LRU1RecordAccess
  \/ LRU1SetEvictable
  \/ LRU1Evict

SpecLRU1 == InitLRU1 /\ [][NextLRU1]_vars

LRU1Expected == <<2, 3, 4, 5, 6, 1>>

\* C13: in scenario LRU-1 (7 frames, K = 2, last accesses 5, 6, 1, 1) Size() is
\* 6 before the first Evict, the successive Evict calls return 2, 3, 4, 5, 6, 1,
\* and the next Evict returns false.
C13_ScenarioLRU1 ==
  lru1.tail = LRU1Tail =>
    /\ (lru1.todo = <<>> /\ lru1.out = <<>> /\ ~lru1.done) => Size(replacer_) = 6
    /\ Len(lru1.out) <= Len(LRU1Expected)
    /\ lru1.out = SubSeq(LRU1Expected, 1, Len(lru1.out))
    /\ lru1.done => lru1.out = LRU1Expected

\* the scenario has run to the Evict that fails
C13_Witness ==
  /\ lru1.tail = LRU1Tail
  /\ lru1.done
  /\ Len(lru1.out) = 6
  /\ ~ret.ok

(***************************************************************************)
(* The extendible hash table on its own (specification SpecHash): a table  *)
(* built with a bucket size of 1 .. MaxBucketSize and driven through       *)
(* Insert, Find and Remove with the keys 0 .. MaxKey, whose hashes differ  *)
(* within MaxDepth bits.  A call of Insert whose split loop does not end never    *)
(* returns: no call follows it.                                            *)
(***************************************************************************)
HashKeys == 0 .. MaxKey

HashValues == Frames

\* the variables the hash table's own operations leave alone
besideTable ==
  <<pages_, free_list_, replacer_, next_page_id_, disk, evicted, fa, access_log, lru1, tree, root_>>

InitHash ==
  /\ pages_ = [f \in Frames |-> EmptyPage]
  /\ free_list_ = Iota(0, PoolSize)
  /\ \E bucket_size \in 1 .. MaxBucketSize : page_table_ = NewTableOf(bucket_size)
  /\ replacer_ = NewReplacer(PoolSize, LRUK)
  /\ next_page_id_ = 0
  /\ disk = [p \in PageIds |-> 0]
  /\ ret = RetBool(FALSE)
  /\ evicted = [p \in PageIds |-> NoByte]
  /\ fa = FaIdle
  /\ access_log = <<>>
  /\ lru1 = [todo |-> <<>>, tail |-> <<>>, out |-> <<>>, done |-> FALSE]
  /\ latest = [key \in HashKeys |-> NoFrame]
  /\ tree = <<>>
  /\ root_ = NewTrie

\* ExtendibleHashTable::Insert (returns nothing)
HashInsert(key, value) ==
  /\ ~page_table_.looping
  /\ page_table_' = TableInsert(page_table_, key, value)
  /\ ret' = RetBool(TRUE)
  /\ latest' = [latest EXCEPT ![key] = value]
  /\ UNCHANGED besideTable

\* ExtendibleHashTable::Find : found, and the value found
HashFind(key) ==
  /\ ~page_table_.looping
  /\ ret' = [ok |-> TableFind(page_table_, key)[1], frame |-> TableFind(page_table_, key)[2]]
  /\ UNCHANGED <<page_table_, latest>>
  /\ UNCHANGED besideTable

\* ExtendibleHashTable::Remove : whether an entry was deleted
HashRemove(key) ==
  /\ ~page_table_.looping
  /\ page_table_' = TableRemove(page_table_, key)
  /\ ret' = RetBool(TableContains(page_table_, key))
  /\ latest' = [latest EXCEPT ![key] = NoFrame]
  /\ UNCHANGED besideTable

NextHash ==
  \/ \E key \in HashKeys, value \in HashValues : HashInsert(key, value)
  \/ \E key \in HashKeys : HashFind(key)
  \/ \E key \in HashKeys : HashRemove(key)

SpecHash == InitHash /\ [][NextHash]_vars

\* how many entries of the whole table carry key
Occurrences(t, key) ==
  Cardinality({<<b, i>> \in (1 .. Len(t.buckets)) \X (1 .. MaxBucketSize) :
                 i <= Len(t.buckets[b].list) /\ t.buckets[b].list[i][1] = key})

\* the table with the value of a present key replaced where it is stored
OverwrittenInPlace(t, key, value) ==
  LET bn == GetIndexBucket(t, IndexOf(t, key))
      p  == ListPos(t.buckets[bn].list, key, 1)
  IN  [t EXCEPT !.buckets[bn].list[p] = <<key, value>>]

\* C16: every Insert(k, v) returns, and then Find(k) is (true, v) and k is
\* stored exactly once in the whole table, also when k was present before; a
\* key is found only if an Insert put it there.
C16_InsertFindRoundTrip ==
  [][\A key \in HashKeys :
       /\ \A value \in HashValues :
            HashInsert(key, value) =>
              /\ ~page_table_'.looping
              /\ TableFind(page_table_', key) = <<TRUE, value>>
              /\ Occurrences(page_table_', key) = 1
       /\ (TableContains(page_table_', key) /\ ~TableContains(page_table_, key)) =>
            \E value \in HashValues : HashInsert(key, value)]_vars

\* C17: Insert(k, v) of a key that is present overwrites its value where it is
\* stored and changes nothing else of the table, whether or not the bucket is
\* full.
C17_OverwriteInPlace ==
  [][\A key \in HashKeys, value \in HashValues :
       (HashInsert(key, value) /\ TableContains(page_table_, key)) =>
          page_table_' = OverwrittenInPlace(page_table_, key, value)]_vars

\* in every state a call returned to, each key inserted and not removed since
\* is found with its latest value, and no other key is found
KeysKeptOnReturn ==
  ~page_table_.looping =>
    \A key \in HashKeys :
      TableFind(page_table_, key) = <<latest[key] # NoFrame, latest[key]>>

\* C18: across every sequence of Insert, Find and Remove, GetNumBuckets and the
\* global depth never decrease, every call returns, and each key inserted and
\* not removed since is found with its latest value, directory doublings and
\* bucket splits included.
C18_GrowsAndKeepsKeys ==
  /\ [](/\ ~page_table_.looping
        /\ \A key \in HashKeys :
             TableFind(page_table_, key) = <<latest[key] # NoFrame, latest[key]>>)
  /\ [][/\ page_table_'.num_buckets >= page_table_.num_buckets
        /\ page_table_'.global_depth >= page_table_.global_depth]_vars

(***************************************************************************)
(* B+ tree pages.  A page is a record is_leaf, page_id, parent_page_id,    *)
(* next_page_id, size, max_size and the arrays key and val (slot i of the  *)
(* code is key[i + 1], val[i + 1]); the slots at and past size keep what   *)
(* was last written there, zero in a page fresh from NewPage.  KeyType()   *)
(* is the key 0, below every key given to the tree.                        *)
(***************************************************************************)
INVALID_INDEX_ID == -1

\* the slots of a page a tree operation can reach
PageSlots == 2 * ((IF LeafMaxSize > InternalMaxSize THEN LeafMaxSize ELSE InternalMaxSize) + 1)

\* BPlusTreeLeafPage::Init / BPlusTreeInternalPage::Init on a zeroed page
InitPage(is_leaf, page_id, parent_id, max_size) ==
  [is_leaf        |-> is_leaf,
   page_id        |-> page_id,
   parent_page_id |-> parent_id,
   next_page_id   |-> INVALID_PAGE_ID,
   size           |-> 0,
   max_size       |-> max_size,
   key            |-> [i \in 1 .. PageSlots |-> 0],
   val            |-> [i \in 1 .. PageSlots |-> 0]]

KeyAt(page, index) == page.key[index + 1]

ValueAt(page, index) == page.val[index + 1]

SetKeyValueAt(page, index, k, v) ==
  [page EXCEPT !.key[index + 1] = k, !.val[index + 1] = v]

\* min_size = ceil(max_size / 2)
GetMinSize(page) == (page.max_size + 1) \div 2

\* BPlusTreeLeafPage::Find : the index of key, or INVALID_INDEX_ID
LeafFind(page, k) ==
  LET hits == {i \in 0 .. (page.size - 1) : KeyAt(page, i) = k}
  IN  IF hits = {} THEN INVALID_INDEX_ID
      ELSE CHOOSE i \in hits : \A j \in hits : i <= j

\* BPlusTreeInternalPage::Find : the greatest index i with key[i] <= k, entry 0
\* standing for minus infinity
InternalFind(page, k) ==
  LET hits == {i \in 1 .. (page.size - 1) : KeyAt(page, i) <= k}
  IN  IF hits = {} THEN 0
      ELSE CHOOSE i \in hits : \A j \in hits : j <= i

\* InsertDataToPage : the entry goes after the entries with a smaller key (past
\* the sentinel entry 0 of an internal page), the rest shifts right, size + 1
InsertDataToPage(page, k, v) ==
  LET first == IF page.is_leaf THEN 0 ELSE 1
      at    == first + Cardinality({i \in first .. (page.size - 1) : KeyAt(page, i) < k})
  IN  [page EXCEPT
         !.key  = [j \in 1 .. PageSlots |->
                     IF j - 1 < at \/ j - 1 > page.size THEN page.key[j]
                     ELSE IF j - 1 = at THEN k ELSE page.key[j - 1]],
         !.val  = [j \in 1 .. PageSlots |->
                     IF j - 1 < at \/ j - 1 > page.size THEN page.val[j]
                     ELSE IF j - 1 = at THEN v ELSE page.val[j - 1]],
         !.size = page.size + 1]

\* BPlusTreeInternalPage::IndexAtOfValue : the index of the entry pointing to a
\* child, INVALID_INDEX_ID when there is none
IndexAtOfValue(page, child) ==
  LET hits == {i \in 0 .. (page.size - 1) : ValueAt(page, i) = child}
  IN  IF hits = {} THEN INVALID_INDEX_ID
      ELSE CHOOSE i \in hits : \A j \in hits : i <= j

\* the entries [from, size) of source copied to the slots 0, 1, ... of target
RECURSIVE MoveUpperHalf(_, _, _, _)
MoveUpperHalf(target, source, from, i) ==
  IF i >= source.size THEN target
  ELSE MoveUpperHalf(SetKeyValueAt(target, i - from, KeyAt(source, i), ValueAt(source, i)),
                     source, from, i + 1)

(***************************************************************************)
(* The B+ tree.  A tree is a record root_page_id_, header (the root id     *)
(* recorded in the header page, page 0), pages (page id -> page, for the   *)
(* page ids 1, 2, ... NewPage has handed out) and crashed (an operation    *)
(* dereferenced a pointer that points to no tree page).  The buffer pool   *)
(* under the tree is taken to be large enough to keep every page.  pin     *)
(* counts, per page, the pins the tree holds through FetchPage and NewPage *)
(* and has not given back through UnpinPage; stray tells that UnpinPage    *)
(* was called for a page on which the tree holds no pin.                   *)
(***************************************************************************)
TreeKeys == 1 .. MaxTreeKey

TreeValues == 0 .. MaxTreeValue

\* BPlusTree::BPlusTree
NewTree ==
  [root_page_id_ |-> INVALID_PAGE_ID,
   header        |-> INVALID_PAGE_ID,
   pages         |-> <<>>,
   pin           |-> <<>>,
   stray         |-> FALSE,
   crashed       |-> FALSE]

IsEmpty(t) == t.root_page_id_ = INVALID_PAGE_ID

IsTreePage(t, page_id) == page_id \in DOMAIN t.pages

\* the page id NewPage hands out next
NewPageId(t) == Len(t.pages) + 1

\* buffer_pool_manager_->NewPage : the page is pinned once
NewPage(t, page) == [t EXCEPT !.pages = Append(@, page), !.pin = Append(@, 1)]

\* buffer_pool_manager_->FetchPage of a page id; the result of a page id that
\* names no tree page is dereferenced
FetchPage(t, page_id) ==
  IF IsTreePage(t, page_id) THEN [t EXCEPT !.pin[page_id] = @ + 1]
  ELSE [t EXCEPT !.crashed = TRUE]

\* buffer_pool_manager_->UnpinPage
UnpinPage(t, page_id) ==
  IF IsTreePage(t, page_id) /\ t.pin[page_id] > 0 THEN [t EXCEPT !.pin[page_id] = @ - 1]
  ELSE [t EXCEPT !.stray = TRUE]

\* the tree with the pins of the calls so far forgotten
ReleasePins(t) == [t EXCEPT !.pin = [p \in DOMAIN t.pages |-> 0], !.stray = FALSE]

\* UpdateRootPageId : the header page records root_page_id_
UpdateRootPageId(t) == [t EXCEPT !.header = t.root_page_id_]

\* the loop of FindLeafPage from page_id down: the id of the leaf reached,
\* INVALID_PAGE_ID when a pointer leaves the tree's pages
RECURSIVE FindLeafFrom(_, _, _, _)
FindLeafFrom(t, page_id, k, fuel) ==
  IF ~IsTreePage(t, page_id) \/ fuel = 0 THEN INVALID_PAGE_ID
  ELSE IF t.pages[page_id].is_leaf THEN page_id
  ELSE FindLeafFrom(t, ValueAt(t.pages[page_id], InternalFind(t.pages[page_id], k)),
                    k, fuel - 1)

FindLeafPage(t, k) == FindLeafFrom(t, t.root_page_id_, k, Len(t.pages))

\* GetValue : <<found, value>>
GetValue(t, k) ==
  LET leaf  == t.pages[FindLeafPage(t, k)]
      index == LeafFind(leaf, k)
  IN  IF index = INVALID_INDEX_ID THEN <<FALSE, NoFrame>>
      ELSE <<TRUE, ValueAt(leaf, index)>>

\* the pins of GetValue: FindLeafPage leaves the leaf pinned, and only the
\* branch that found the key unpins it
GetValuePins(t, k) ==
  LET leaf_id == FindLeafPage(t, k)
  IN  IF GetValue(t, k)[1] THEN UnpinPage(FetchPage(t, leaf_id), leaf_id)
      ELSE FetchPage(t, leaf_id)

\* what a split shares between leaf and internal pages: a new page with the
\* entries [size/2, size) of the page, the page cut to [0, size/2)
SplitOff(page, new_page_id, max_size) ==
  LET splitIndex == page.size \div 2
      fresh      == InitPage(page.is_leaf, new_page_id, page.parent_page_id, max_size)
  IN  [MoveUpperHalf(fresh, page, splitIndex, splitIndex) EXCEPT
         !.size = page.size - splitIndex]

\* the new root page of a split root: entries (KeyType(), old), (key, new)
NewRootPage(root_id, old_id, k, new_id) ==
  [SetKeyValueAt(SetKeyValueAt(InitPage(FALSE, root_id, INVALID_PAGE_ID, InternalMaxSize),
                               0, 0, old_id),
                 1, k, new_id) EXCEPT !.size = 2]

\* SplitLeafPage : <<tree, parent_pid>>
SplitLeafPage(t, page_id) ==
  LET page       == t.pages[page_id]
      new_id     == NewPageId(t)
      newPage    == SplitOff(page, new_id, LeafMaxSize)
      cut        == [page EXCEPT !.size = page.size \div 2]
      is_root    == page_id = t.root_page_id_
      root_id    == new_id + 1
      parent_pid == IF is_root THEN root_id ELSE page.parent_page_id
      linkedNew  == [newPage EXCEPT !.parent_page_id = parent_pid,
                                    !.next_page_id = page.next_page_id]
      linkedOld  == [cut EXCEPT !.parent_page_id = parent_pid, !.next_page_id = new_id]
      withNew    == NewPage([t EXCEPT !.pages[page_id] = linkedOld], linkedNew)
      withRoot   == UpdateRootPageId(
                      [NewPage(withNew, NewRootPage(root_id, page_id, KeyAt(newPage, 0), new_id))
                         EXCEPT !.root_page_id_ = root_id])
      withParent == [FetchPage(withNew, parent_pid) EXCEPT
                       !.pages[parent_pid] =
                          InsertDataToPage(t.pages[parent_pid], KeyAt(newPage, 0), new_id)]
  IN  IF is_root THEN <<UnpinPage(UnpinPage(withRoot, new_id), parent_pid), parent_pid>>
      ELSE IF ~IsTreePage(t, parent_pid) THEN <<[t EXCEPT !.crashed = TRUE], parent_pid>>
      ELSE <<UnpinPage(UnpinPage(withParent, new_id), parent_pid), parent_pid>>

\* the while loop of InsertLeafPage: split the internal page current_id while
\* it holds more than max_size entries, then go on with its parent
RECURSIVE SplitInternalLoop(_, _)
SplitInternalLoop(t, current_id) ==
  IF t.crashed THEN t
  ELSE IF ~IsTreePage(t, current_id) THEN [t EXCEPT !.crashed = TRUE]
  ELSE
    LET current == t.pages[current_id]
        new_id  == NewPageId(t)
        moved   == SplitOff(current, new_id, InternalMaxSize)
        cut     == [current EXCEPT !.size = current.size \div 2]
        newPage == SetKeyValueAt(moved, 0, 0, ValueAt(moved, 0))
        root_id == new_id + 1
        parent  == current.parent_page_id
        withRoot ==
          UpdateRootPageId(
            [NewPage(NewPage([t EXCEPT !.pages[current_id] =
                                          [cut EXCEPT !.parent_page_id = root_id]],
                             [newPage EXCEPT !.parent_page_id = root_id]),
                     NewRootPage(root_id, current_id, KeyAt(moved, 0), new_id))
               EXCEPT !.root_page_id_ = root_id])
        withParent ==
          UnpinPage(
            [FetchPage(NewPage([t EXCEPT !.pages[current_id] = cut],
                               [newPage EXCEPT !.parent_page_id = parent]),
                       parent)
               EXCEPT !.pages[parent] =
                        InsertDataToPage(t.pages[parent], KeyAt(moved, 0), new_id)],
            parent)
    IN  IF current.size <= current.max_size THEN UnpinPage(t, current_id)
        ELSE IF current_id = t.root_page_id_
        THEN SplitInternalLoop(
               FetchPage(UnpinPage(UnpinPage(withRoot, new_id), current_id), root_id),
               root_id)
        ELSE IF ~IsTreePage(t, parent) THEN [t EXCEPT !.crashed = TRUE]
        ELSE SplitInternalLoop(
               FetchPage(UnpinPage(UnpinPage(withParent, new_id), current_id), parent),
               parent)

InsertLeafPage(t, k, v) ==
  LET leaf_id  == FindLeafPage(t, k)
      leaf     == t.pages[leaf_id]
      index    == LeafFind(leaf, k)
      inserted == InsertDataToPage(leaf, k, v)
      t0       == FetchPage(t, leaf_id)
      t1       == [t0 EXCEPT !.pages[leaf_id] = inserted]
      split    == SplitLeafPage(t1, leaf_id)
  IN  IF ~IsTreePage(t, leaf_id) THEN [t EXCEPT !.crashed = TRUE]
      ELSE IF index # INVALID_INDEX_ID
      THEN UnpinPage([t0 EXCEPT !.pages[leaf_id] = SetKeyValueAt(leaf, index, k, v)], leaf_id)
      ELSE IF inserted.size <= inserted.max_size THEN UnpinPage(t1, leaf_id)
      ELSE IF split[1].crashed THEN split[1]
      ELSE SplitInternalLoop(FetchPage(split[1], split[2]), split[2])

\* BPlusTree::Insert (returns true)
TreeInsert(t, k, v) ==
  IF IsEmpty(t)
  THEN UnpinPage(
         UpdateRootPageId(
           [NewPage(t, InsertDataToPage(InitPage(TRUE, NewPageId(t), INVALID_PAGE_ID,
                                                 LeafMaxSize), k, v))
              EXCEPT !.root_page_id_ = NewPageId(t)]),
         NewPageId(t))
  ELSE InsertLeafPage(t, k, v)

(***************************************************************************)
(* The B+ tree filled by Insert alone (specification SpecTreeInsert).      *)
(***************************************************************************)
\* the variables the B+ tree's own operations leave alone
besideTree ==
  <<pages_, free_list_, page_table_, replacer_, next_page_id_, disk, evicted, fa,
    access_log, lru1, root_>>

InitTree ==
  /\ pages_ = [f \in Frames |-> EmptyPage]
  /\ free_list_ = Iota(0, PoolSize)
  /\ page_table_ = NewTable
  /\ replacer_ = NewReplacer(PoolSize, LRUK)
  /\ next_page_id_ = 0
  /\ disk = [p \in PageIds |-> 0]
  /\ ret = RetBool(FALSE)
  /\ evicted = [p \in PageIds |-> NoByte]
  /\ fa = FaIdle
  /\ access_log = <<>>
  /\ lru1 = [todo |-> <<>>, tail |-> <<>>, out |-> <<>>, done |-> FALSE]
  /\ latest = [k \in TreeKeys |-> NoFrame]
  /\ tree = NewTree
  /\ root_ = NewTrie

\* BPlusTree::Insert, while the tree holds fewer than MaxTreePages pages; the
\* pins the call leaves behind are not followed here
BPlusTreeInsert(k, v) ==
  /\ ~tree.crashed
  /\ Len(tree.pages) < MaxTreePages
  /\ tree' = ReleasePins(TreeInsert(tree, k, v))
  /\ latest' = [latest EXCEPT ![k] = v]
  /\ ret' = RetBool(TRUE)
  /\ UNCHANGED besideTree

\* BPlusTree::GetValue on a tree that is not empty
BPlusTreeGetValue(k) ==
  /\ ~tree.crashed
  /\ ~IsEmpty(tree)
  /\ IsTreePage(tree, FindLeafPage(tree, k))
  /\ ret' = [ok |-> GetValue(tree, k)[1], frame |-> GetValue(tree, k)[2]]
  /\ UNCHANGED <<tree, latest>>
  /\ UNCHANGED besideTree

NextTreeInsert ==
  \/ \E k \in TreeKeys, v \in TreeValues : BPlusTreeInsert(k, v)
  \/ \E k \in TreeKeys : BPlusTreeGetValue(k)

SpecTreeInsert == InitTree /\ [][NextTreeInsert]_vars

\* C19: after every Insert into a tree filled by Insert alone, GetValue(k)
\* succeeds with the last value inserted for k, for every key inserted so far,
\* and fails for no inserted key; an Insert of a present key overwrites its
\* value and keeps the number of stored entries.
StoredEntries(t) ==
  {<<p, i>> \in (DOMAIN t.pages) \X (0 .. (PageSlots - 1)) :
     t.pages[p].is_leaf /\ i < t.pages[p].size}

C19_InsertGetValue ==
  /\ [](\A k \in TreeKeys :
          latest[k] # NoFrame =>
            /\ ~tree.crashed
            /\ IsTreePage(tree, FindLeafPage(tree, k))
            /\ GetValue(tree, k) = <<TRUE, latest[k]>>)
  /\ [][\A k \in TreeKeys, v \in TreeValues :
          (BPlusTreeInsert(k, v) /\ latest[k] # NoFrame) =>
             Cardinality(StoredEntries(tree')) = Cardinality(StoredEntries(tree))]_vars

(***************************************************************************)
(* Remove.  Every DeletePage call of the tree names a page the caller      *)
(* still has pinned, so DeletePgImp refuses it and the page stays as it is. *)
(***************************************************************************)
isRedistribute(node) == node.size > GetMinSize(node)

isCoalesce(lNode, rNode) == lNode.size + rNode.size <= rNode.max_size

\* for (i = from; i < size; i++) SetKeyValueAt(i - 1, KeyAt(i), ValueAt(i))
RECURSIVE ShiftLeftLoop(_, _)
ShiftLeftLoop(page, i) ==
  IF i >= page.size THEN page
  ELSE ShiftLeftLoop(SetKeyValueAt(page, i - 1, KeyAt(page, i), ValueAt(page, i)), i + 1)

\* for (i = 0; i < size; i++) SetKeyValueAt(i + 1, KeyAt(i), ValueAt(i))
RECURSIVE ShiftRightLoop(_, _)
ShiftRightLoop(page, i) ==
  IF i >= page.size THEN page
  ELSE ShiftRightLoop(SetKeyValueAt(page, i + 1, KeyAt(page, i), ValueAt(page, i)), i + 1)

\* for (i = 0; i < lNode.size; i++) lNode.SetKeyValueAt(lNode.size + i, rNode[i])
RECURSIVE CoalesceCopyLoop(_, _, _)
CoalesceCopyLoop(lNode, rNode, i) ==
  IF i >= lNode.size THEN lNode
  ELSE CoalesceCopyLoop(SetKeyValueAt(lNode, lNode.size + i, KeyAt(rNode, i), ValueAt(rNode, i)),
                        rNode, i + 1)

\* BPlusTree::Redistribute
TreeRedistribute(t, l_id, r_id, parent_id, index) ==
  LET lNode  == t.pages[l_id]
      rNode  == t.pages[r_id]
      parent == t.pages[parent_id]
      last   == lNode.size - 1
      \* the left node borrows from the right node
      aKeyed == SetKeyValueAt(rNode, 0, KeyAt(parent, index), ValueAt(rNode, 0))
      aInner == SetKeyValueAt(aKeyed, 1, 0, ValueAt(aKeyed, 1))
      aFrom  == IF lNode.is_leaf THEN rNode ELSE aInner
      aUp    == IF lNode.is_leaf THEN KeyAt(rNode, 1) ELSE KeyAt(aKeyed, 1)
      \* the right node borrows from the left node
      bShift == ShiftRightLoop(rNode, 0)
      bKeyed == IF rNode.is_leaf THEN bShift
                ELSE SetKeyValueAt(bShift, 1, KeyAt(parent, index), ValueAt(bShift, 1))
      bMoved == SetKeyValueAt(bKeyed, 0, KeyAt(lNode, last), ValueAt(lNode, last))
      bRight == IF rNode.is_leaf THEN bMoved
                ELSE SetKeyValueAt(bMoved, 0, 0, ValueAt(bMoved, 0))
      borrowsLeft == lNode.size < GetMinSize(lNode)
      newL == IF borrowsLeft
              THEN SetKeyValueAt(lNode, lNode.size, KeyAt(aFrom, 0), ValueAt(aFrom, 0))
              ELSE lNode
      newR == IF borrowsLeft THEN ShiftLeftLoop(aFrom, 1) ELSE bRight
      newP == SetKeyValueAt(parent, index,
                            IF borrowsLeft THEN aUp ELSE KeyAt(bMoved, 0),
                            ValueAt(parent, index))
  IN  [t EXCEPT !.pages = [t.pages EXCEPT
                             ![parent_id] = newP,
                             ![l_id] = [newL EXCEPT !.size = lNode.size + 1],
                             ![r_id] = [newR EXCEPT !.size = rNode.size - 1]]]

Coalesce(t, l_id, r_id, parent_id, index) ==
  LET lNode  == t.pages[l_id]
      rNode  == t.pages[r_id]
      parent == t.pages[parent_id]
      linked == IF lNode.is_leaf THEN [lNode EXCEPT !.next_page_id = rNode.next_page_id]
                ELSE lNode
      keyed  == IF lNode.is_leaf THEN rNode
                ELSE SetKeyValueAt(rNode, 0, KeyAt(parent, index), ValueAt(rNode, 0))
      filled == CoalesceCopyLoop(linked, keyed, 0)
  IN  [t EXCEPT !.pages = [t.pages EXCEPT
                             ![r_id] = keyed,
                             ![parent_id] = ShiftLeftLoop(parent, index + 1),
                             ![l_id] = [filled EXCEPT !.size = lNode.size + rNode.size]]]

\* SolveOverflow for the page node_id
SolveOverflow(t, node_id) ==
  LET node       == t.pages[node_id]
      parent_pid == node.parent_page_id
      parentPage == t.pages[parent_pid]
      current_index   == IndexAtOfValue(parentPage, node_id)
      left_sib_index  == current_index - 1
      right_sib_index == current_index + 1
      useLeft    == left_sib_index >= 0
      useRight   == ~useLeft /\ right_sib_index < parentPage.size
      sib_index  == IF useLeft THEN left_sib_index ELSE right_sib_index
      sibling_pid == ValueAt(parentPage, sib_index)
      sib_node   == t.pages[sibling_pid]
      borrow     == (useLeft \/ useRight) /\ isRedistribute(sib_node)
      borrowed   == IF useLeft
                    THEN TreeRedistribute(t, sibling_pid, node_id, parent_pid, current_index)
                    ELSE TreeRedistribute(t, node_id, sibling_pid, parent_pid, right_sib_index)
      merge      == IF useLeft THEN isCoalesce(sib_node, node) ELSE isCoalesce(node, sib_node)
      merged     == IF useLeft
                    THEN Coalesce(t, sibling_pid, node_id, parent_pid, current_index)
                    ELSE Coalesce(t, node_id, sibling_pid, parent_pid, right_sib_index)
      \* the sibling fetched for the borrow is unpinned (lines 313, 331), the
      \* sibling fetched again for the merge is not
      t1         == IF borrow THEN UnpinPage(FetchPage(borrowed, sibling_pid), sibling_pid)
                    ELSE IF useLeft \/ useRight
                    THEN FetchPage(UnpinPage(FetchPage(IF merge THEN merged ELSE t,
                                                       sibling_pid), sibling_pid), sibling_pid)
                    ELSE FetchPage(IF merge THEN merged ELSE t, sibling_pid)
      kept_id    == IF ~borrow /\ merge /\ useLeft THEN sibling_pid ELSE node_id
      demoted    == UpdateRootPageId(
                      [t1 EXCEPT !.root_page_id_ = kept_id,
                                 !.pages[kept_id].parent_page_id = INVALID_PAGE_ID])
  IN  IF ~IsTreePage(t, parent_pid) \/ ~IsTreePage(t, sibling_pid)
      THEN [t EXCEPT !.crashed = TRUE]
      ELSE UnpinPage(FetchPage(IF t1.pages[parent_pid].size = 1 /\ parent_pid = t1.root_page_id_
                               THEN demoted ELSE t1,
                               parent_pid),
                     parent_pid)

\* the while loop of Remove over the ancestors of the leaf, entered with the
\* page node_id pinned, and the UnpinPage of line 433 after it
RECURSIVE SolveOverflowLoop(_, _)
SolveOverflowLoop(t, node_id) ==
  IF t.crashed THEN t
  ELSE IF ~IsTreePage(t, node_id) THEN [t EXCEPT !.crashed = TRUE]
  ELSE IF t.pages[node_id].size >= GetMinSize(t.pages[node_id]) THEN UnpinPage(t, node_id)
  ELSE LET t1 == SolveOverflow(t, node_id)
           parent_pid == t1.pages[node_id].parent_page_id
       IN  IF t1.crashed THEN t1
           ELSE IF parent_pid = INVALID_PAGE_ID THEN UnpinPage(t1, node_id)
           ELSE SolveOverflowLoop(FetchPage(UnpinPage(t1, node_id), parent_pid), parent_pid)

\* Remove(k) finds k in a leaf that is not the root and keeps min_size entries
\* without it: the branch that assigns the pointer node is skipped
SkipsSolveOverflow(t, k) ==
  /\ ~IsEmpty(t)
  /\ IsTreePage(t, FindLeafPage(t, k))
  /\ LeafFind(t.pages[FindLeafPage(t, k)], k) # INVALID_INDEX_ID
  /\ FindLeafPage(t, k) # t.root_page_id_
  /\ t.pages[FindLeafPage(t, k)].size - 1 >= GetMinSize(t.pages[FindLeafPage(t, k)])

\* whether the pointer read at line 433 may point to readable memory: either
\* way when it was never assigned
NodeDefined(t, k) == IF SkipsSolveOverflow(t, k) THEN BOOLEAN ELSE {TRUE}

\* the page ids line 433 may read through a pointer that was never assigned:
\* any value, a page of the tree or none
StrayPageIds(t, k) ==
  IF SkipsSolveOverflow(t, k) THEN {INVALID_PAGE_ID} \cup DOMAIN t.pages
  ELSE {INVALID_PAGE_ID}

\* BPlusTree::Remove; node_defined tells whether the pointer node, which line
\* 433 reads without any assignment when the leaf keeps min_size entries,
\* happens to point to readable memory, and node_page_id is the page id read
\* there
TreeRemove(t, k, node_defined, node_page_id) ==
  LET leaf_id == FindLeafPage(t, k)
      leaf    == t.pages[leaf_id]
      index   == LeafFind(leaf, k)
      cut     == [ShiftLeftLoop(leaf, index + 1) EXCEPT !.size = leaf.size - 1]
      t0      == FetchPage(t, leaf_id)
      t1      == [t0 EXCEPT !.pages[leaf_id] = cut]
      t2      == SolveOverflow(t1, leaf_id)
      parent_pid == t2.pages[leaf_id].parent_page_id
  IN  IF IsEmpty(t) THEN t
      ELSE IF ~IsTreePage(t, leaf_id) THEN [t EXCEPT !.crashed = TRUE]
      ELSE IF index = INVALID_INDEX_ID THEN UnpinPage(t0, leaf_id)
      ELSE IF leaf_id = t.root_page_id_ THEN t1
      ELSE IF cut.size < GetMinSize(cut)
      THEN IF t2.crashed THEN t2
           ELSE SolveOverflowLoop(FetchPage(t2, parent_pid), parent_pid)
      ELSE IF node_defined THEN UnpinPage(t1, node_page_id)
      ELSE [t1 EXCEPT !.crashed = TRUE]

(***************************************************************************)
(* The leaf chain the index iterator walks.                                *)
(***************************************************************************)
\* BPlusTree::Begin : the leaf to start at
BeginLeaf(t) == FindLeafPage(t, 0)

\* BPlusTree::End : the leaf under the last pointer of every internal page
RECURSIVE EndLeafFrom(_, _, _)
EndLeafFrom(t, page_id, fuel) ==
  IF ~IsTreePage(t, page_id) \/ fuel = 0 THEN INVALID_PAGE_ID
  ELSE IF t.pages[page_id].is_leaf THEN page_id
  ELSE IF t.pages[page_id].size < 1 THEN INVALID_PAGE_ID
  ELSE EndLeafFrom(t, ValueAt(t.pages[page_id], t.pages[page_id].size - 1), fuel - 1)

EndLeaf(t) == EndLeafFrom(t, t.root_page_id_, Len(t.pages))

\* the leaves from leaf_id along next_page_id up to the leaf End designates
RECURSIVE LeafChain(_, _, _)
LeafChain(t, leaf_id, fuel) ==
  IF ~IsTreePage(t, leaf_id) \/ fuel = 0 THEN <<>>
  ELSE IF leaf_id = EndLeaf(t) THEN <<leaf_id>>
  ELSE <<leaf_id>> \o LeafChain(t, t.pages[leaf_id].next_page_id, fuel - 1)

\* the keys of the leaves of a chain, in the order the iterator yields them
RECURSIVE ChainKeys(_, _)
ChainKeys(t, chain) ==
  IF chain = <<>> THEN <<>>
  ELSE LET leaf == t.pages[Head(chain)]
       IN  [i \in 1 .. (IF leaf.size > 0 THEN leaf.size ELSE 0) |-> KeyAt(leaf, i - 1)]
             \o ChainKeys(t, Tail(chain))

\* the leaves FindLeafPage can reach from the root
ReachableLeaves(t) == {FindLeafPage(t, k) : k \in 0 .. MaxTreeKey} \ {INVALID_PAGE_ID}

(***************************************************************************)
(* The B+ tree under Insert and Remove (specification SpecTree).           *)
(* A call is followed while every page holds between 0 and max_size + 1    *)
(* entries, the range the page slots of the model cover.                   *)
(***************************************************************************)
InSlots(t) ==
  \A p \in DOMAIN t.pages : t.pages[p].size \in 0 .. (t.pages[p].max_size + 1)

\* BPlusTree::Insert; the value is the same in every call, the structure of
\* the tree does not depend on it
BPlusTreeInsertAny(k) ==
  /\ InSlots(tree)
  /\ BPlusTreeInsert(k, 0)

\* BPlusTree::Remove; the pins the call leaves behind are not followed here
BPlusTreeRemove(k) ==
  /\ ~tree.crashed
  /\ InSlots(tree)
  /\ tree' \in {ReleasePins(TreeRemove(tree, k, node_defined, node_page_id)) :
                 node_defined \in NodeDefined(tree, k), node_page_id \in StrayPageIds(tree, k)}
  /\ latest' = [latest EXCEPT ![k] = NoFrame]
  /\ ret' = RetBool(TRUE)
  /\ UNCHANGED besideTree

NextTree ==
  \/ \E k \in TreeKeys : BPlusTreeInsertAny(k)
  \/ \E k \in TreeKeys : BPlusTreeRemove(k)

SpecTree == InitTree /\ [][NextTree]_vars

\* C20: after any sequence of Insert and Remove calls that returned, the walk
\* from the leaf Begin() starts at along next_page_id to the leaf End()
\* designates yields every key stored (inserted and not removed since) exactly
\* once, in strictly ascending order, and passes every leaf reachable from the
\* root.
C20_LeafChainOrdered ==
  (~IsEmpty(tree) /\ ~tree.crashed) =>
    LET chain == LeafChain(tree, BeginLeaf(tree), Len(tree.pages))
        keys  == ChainKeys(tree, chain)
    IN  /\ \A i, j \in DOMAIN keys : i < j => keys[i] < keys[j]
        /\ {keys[i] : i \in DOMAIN keys} = {k \in TreeKeys : latest[k] # NoFrame}
        /\ ReachableLeaves(tree) \subseteq {chain[i] : i \in DOMAIN chain}

(***************************************************************************)
(* The pages of the tree seen from the root.                               *)
(***************************************************************************)
\* the pages the entries [0, size) of the internal pages in ids point to
Children(t, ids) ==
  {ValueAt(t.pages[p], i) : <<p, i>> \in
     {<<p, i>> \in ids \X (0 .. (PageSlots - 1)) :
        ~t.pages[p].is_leaf /\ i < t.pages[p].size}} \cap DOMAIN t.pages

RECURSIVE ReachableFrom(_, _, _)
ReachableFrom(t, ids, fuel) ==
  IF fuel = 0 \/ Children(t, ids) \subseteq ids THEN ids
  ELSE ReachableFrom(t, ids \cup Children(t, ids), fuel - 1)

\* the pages reachable from the root page through child pointers
ReachablePages(t) ==
  ReachableFrom(t, {t.root_page_id_} \cap DOMAIN t.pages, Len(t.pages))

\* C21: after every completed Insert or Remove every non-root page reachable
\* from the root holds between min_size = ceil(max_size / 2) and max_size
\* entries, and the root holds at most max_size entries.
C21_OccupancyBounds ==
  ~tree.crashed =>
    \A p \in ReachablePages(tree) :
      /\ tree.pages[p].size <= tree.pages[p].max_size
      /\ p # tree.root_page_id_ => tree.pages[p].size >= GetMinSize(tree.pages[p])
      /\ tree.pages[p].size >= 0

\* GetValue finds exactly the keys in stored, each with its value
FindsExactly(t, stored) ==
  /\ ~t.crashed
  /\ \A k \in TreeKeys :
       /\ IsTreePage(t, FindLeafPage(t, k))
       /\ GetValue(t, k) = <<stored[k] # NoFrame, stored[k]>>

\* C22: a Remove(k) that returns, on a tree in which GetValue finds exactly the
\* stored keys, leaves a tree in which GetValue fails for k and still succeeds
\* with its value for every other stored key; when k is absent the stored key
\* set stays as it is.
C22_RemoveRoundTrip ==
  [][\A k \in TreeKeys :
       (BPlusTreeRemove(k) /\ FindsExactly(tree, latest) /\ ~tree'.crashed) =>
          FindsExactly(tree', [latest EXCEPT ![k] = NoFrame])]_vars

(***************************************************************************)
(* The B+ tree with the pins of the last call (specification              *)
(* SpecTreePins): every call starts with no pin held by the tree, so that  *)
(* tree.pin and tree.stray tell what the call itself left behind.          *)
(***************************************************************************)
\* BPlusTree::Insert, while the tree holds fewer than MaxPinnedTreePages pages
BPlusTreeInsertPins(k) ==
  /\ ~tree.crashed
  /\ InSlots(tree)
  /\ Len(tree.pages) < MaxPinnedTreePages
  /\ tree' = TreeInsert(ReleasePins(tree), k, 0)
  /\ latest' = [latest EXCEPT ![k] = 0]
  /\ ret' = RetBool(TRUE)
  /\ UNCHANGED besideTree

\* BPlusTree::GetValue on a tree that is not empty
BPlusTreeGetValuePins(k) ==
  /\ ~tree.crashed
  /\ InSlots(tree)
  /\ ~IsEmpty(tree)
  /\ IsTreePage(tree, FindLeafPage(tree, k))
  /\ tree' = GetValuePins(ReleasePins(tree), k)
  /\ ret' = [ok |-> GetValue(tree, k)[1], frame |-> GetValue(tree, k)[2]]
  /\ UNCHANGED latest
  /\ UNCHANGED besideTree

\* BPlusTree::Remove
BPlusTreeRemovePins(k) ==
  /\ ~tree.crashed
  /\ InSlots(tree)
  /\ tree' \in {TreeRemove(ReleasePins(tree), k, node_defined, node_page_id) :
                 node_defined \in NodeDefined(tree, k), node_page_id \in StrayPageIds(tree, k)}
  /\ latest' = [latest EXCEPT ![k] = NoFrame]
  /\ ret' = RetBool(TRUE)
  /\ UNCHANGED besideTree

NextTreePins ==
  \/ \E k \in TreeKeys : BPlusTreeInsertPins(k)
  \/ \E k \in TreeKeys : BPlusTreeGetValuePins(k)
  \/ \E k \in TreeKeys : BPlusTreeRemovePins(k)

SpecTreePins == InitTree /\ [][NextTreePins]_vars

\* C23: when GetValue, Insert or Remove returns, the tree holds no pin on any
\* page (every FetchPage and NewPage of the call was answered by one
\* UnpinPage) and the call issued no UnpinPage for a page it held no pin on.
C23_PinBalance ==
  ~tree.crashed =>
    /\ \A p \in DOMAIN tree.pin : tree.pin[p] = 0
    /\ ~tree.stray

\* the root is a leaf whose only entry is the key k
RootLeafHoldsOnly(t, k) ==
  /\ IsTreePage(t, t.root_page_id_)
  /\ t.pages[t.root_page_id_].is_leaf
  /\ t.pages[t.root_page_id_].size = 1
  /\ KeyAt(t.pages[t.root_page_id_], 0) = k

\* C24: a Remove of the last key of a tree whose root is a leaf leaves the
\* tree empty (root_page_id_ = INVALID_PAGE_ID), so that the next Insert
\* starts a fresh root leaf.
C24_LastKeyEmptiesTree ==
  [][\A k \in TreeKeys :
       (BPlusTreeRemove(k) /\ RootLeafHoldsOnly(tree, k)) => IsEmpty(tree')]_vars

\* the keys stored in the leaves under the page page_id
KeysUnder(t, page_id) ==
  {KeyAt(t.pages[e[1]], e[2]) : e \in
     {e \in ReachableFrom(t, {page_id} \cap DOMAIN t.pages, Len(t.pages))
               \X (0 .. (PageSlots - 1)) :
        t.pages[e[1]].is_leaf /\ e[2] < t.pages[e[1]].size}}

\* the keys of the entries of a page are strictly increasing (entry 0 of an
\* internal page has no key)
KeysIncreasing(page) ==
  \A i, j \in (IF page.is_leaf THEN 0 ELSE 1) .. (page.size - 1) :
    i < j => KeyAt(page, i) < KeyAt(page, j)

\* C25: after any sequence of Insert and Remove the keys within each page
\* reachable from the root are strictly increasing, and every key k stored
\* under the child at index i of an internal page satisfies
\* key[i] <= k < key[i + 1] (no lower bound for i = 0, no upper bound for the
\* last entry).
C25_SearchInvariant ==
  ~tree.crashed =>
    \A p \in ReachablePages(tree) :
      /\ KeysIncreasing(tree.pages[p])
      /\ ~tree.pages[p].is_leaf =>
           \A i \in 0 .. (tree.pages[p].size - 1) :
             \A k \in KeysUnder(tree, ValueAt(tree.pages[p], i)) :
               /\ i > 0 => KeyAt(tree.pages[p], i) <= k
               /\ i < tree.pages[p].size - 1 => k < KeyAt(tree.pages[p], i + 1)


(***************************************************************************)
(* The trie driven on its own.  latest[key] is the value the caller stored *)
(* under the key: the value of the first Insert since the key was last     *)
(* removed, NoFrame when there is none.                                    *)
(***************************************************************************)
besideTrie ==
  <<pages_, free_list_, page_table_, replacer_, next_page_id_, disk, evicted, fa,
    access_log, lru1, tree>>

TrieInputs == TrieKeys \cup {<<>>}

InitTrie ==
  /\ pages_ = [f \in Frames |-> EmptyPage]
  /\ free_list_ = Iota(0, PoolSize)
  /\ page_table_ = NewTable
  /\ replacer_ = NewReplacer(PoolSize, LRUK)
  /\ next_page_id_ = 0
  /\ disk = [p \in PageIds |-> 0]
  /\ ret = RetBool(FALSE)
  /\ evicted = [p \in PageIds |-> NoByte]
  /\ fa = FaIdle
  /\ access_log = <<>>
  /\ lru1 = [todo |-> <<>>, tail |-> <<>>, out |-> <<>>, done |-> FALSE]
  /\ latest = [k \in TrieKeys |-> NoFrame]
  /\ tree = <<>>
  /\ root_ = NewTrie

TrieInsertCall(key, value) ==
  /\ LET r == TrieInsert(root_, key, value)
     IN  root_' = r[2] /\ ret' = RetBool(r[1])
  /\ latest' = IF key \in TrieKeys /\ latest[key] = NoFrame
               THEN [latest EXCEPT ![key] = value]
               ELSE latest
  /\ UNCHANGED besideTrie

TrieRemoveCall(key) ==
  /\ LET r == TrieRemove(root_, key)
     IN  root_' = r[2] /\ ret' = RetBool(r[1])
  /\ latest' = IF key \in TrieKeys THEN [latest EXCEPT ![key] = NoFrame] ELSE latest
  /\ UNCHANGED besideTrie

TrieGetValueCall(key) ==
  /\ LET r == TrieGetValue(root_, key)
     IN  ret' = [ok |-> r[1], frame |-> r[2]]
  /\ UNCHANGED <<root_, latest>>
  /\ UNCHANGED besideTrie

NextTrie ==
  \/ \E key \in TrieInputs, value \in TrieValues : TrieInsertCall(key, value)
  \/ \E key \in TrieInputs : TrieRemoveCall(key)
  \/ \E key \in TrieInputs : TrieGetValueCall(key)

SpecTrie == InitTrie /\ [][NextTrie]_vars

\* C26: Insert of a key that is stored returns false and leaves the key's
\* value as it was, whatever keys that extend it were inserted in between
C26_InsertKeepsExisting ==
  [][\A key \in TrieKeys, value \in TrieValues :
       (TrieInsertCall(key, value) /\ latest[key] # NoFrame) =>
          /\ ret'.ok = FALSE
          /\ TrieGetValue(root_', key) = <<TRUE, latest[key]>>]_vars

\* C27: Remove returns true exactly when the key is stored (false for the
\* empty key, a key never inserted, a key that is only a prefix of stored
\* keys); after a successful Remove GetValue of the key fails, and every
\* other key answers GetValue as before
C27_Remove ==
  [][\A key \in TrieInputs :
       TrieRemoveCall(key) =>
          /\ ret'.ok = (key \in TrieKeys /\ latest[key] # NoFrame)
          /\ ret'.ok => ~TrieGetValue(root_', key)[1]
          /\ \A other \in TrieKeys \ {key} :
               TrieGetValue(root_', other) = TrieGetValue(root_, other)]_vars


(***************************************************************************)
(* The replacer's operations one by one (SpecReplacer).                    *)
(***************************************************************************)
\* the nodes of the frames other than f, and their order in the two lists
Others(r, f) ==
  [entries_ |-> [g \in (DOMAIN r.entries_) \ {f} |-> r.entries_[g]],
   history  |-> Without(r.history, f),
   buffer   |-> Without(r.buffer, f)]

\* C28: RecordAccess(f) on an unknown frame creates a node with access count
\* 1, non-evictable, in neither list; on a known non-evictable frame it only
\* increments the count; on an evictable frame whose incremented count equals
\* k_ it moves the node from the history list to the front of the buffer list
\* (history counter -1, buffer counter +1); on an evictable frame already at
\* k_ or more it moves the node to the buffer front, counters unchanged; Size()
\* and the other frames' state never change.
C28_RecordAccess ==
  [][\A f \in ReplacerFrames :
       RecordAccessCall(f) =>
         LET r == replacer_
             q == replacer_'
         IN  /\ Size(q) = Size(r)
             /\ Others(q, f) = Others(r, f)
             /\ ~Tracked(r, f) =>
                  /\ q.entries_[f] = [value_ |-> 1, evictable_ |-> FALSE]
                  /\ ~InSeq(q.history, f) /\ ~InSeq(q.buffer, f)
                  /\ q.curr_history_size_ = r.curr_history_size_
                  /\ q.curr_buffer_size_ = r.curr_buffer_size_
             /\ (Tracked(r, f) /\ ~r.entries_[f].evictable_) =>
                  q = [r EXCEPT !.entries_[f].value_ = @ + 1]
             /\ (IsEvictable(r, f) /\ r.entries_[f].value_ + 1 = r.k_) =>
                  /\ InSeq(r.history, f)
                  /\ q.entries_[f] = [value_ |-> r.k_, evictable_ |-> TRUE]
                  /\ q.history = Without(r.history, f)
                  /\ q.buffer = <<f>> \o r.buffer
                  /\ q.curr_history_size_ = r.curr_history_size_ - 1
                  /\ q.curr_buffer_size_ = r.curr_buffer_size_ + 1
             /\ (IsEvictable(r, f) /\ r.entries_[f].value_ >= r.k_) =>
                  /\ InSeq(r.buffer, f)
                  /\ q.entries_[f] = [value_ |-> r.entries_[f].value_ + 1, evictable_ |-> TRUE]
                  /\ q.history = r.history
                  /\ q.buffer = <<f>> \o Without(r.buffer, f)
                  /\ q.curr_history_size_ = r.curr_history_size_
                  /\ q.curr_buffer_size_ = r.curr_buffer_size_]_vars

\* the access recorded last was the k_-th of an evictable frame, which now is
\* the front of the buffer list ahead of another frame, the history list empty
C28_Witness ==
  /\ access_log # <<>>
  /\ LET f == access_log[Len(access_log)]
     IN  /\ IsEvictable(replacer_, f)
         /\ replacer_.entries_[f].value_ = replacer_.k_
         /\ Len(replacer_.buffer) = 2
         /\ replacer_.buffer[1] = f
         /\ replacer_.history = <<>>
         /\ replacer_.curr_buffer_size_ = 2


\* C29: SetEvictable(f, on) changes nothing when f is unknown or already in
\* the requested state; an evictable -> non-evictable transition unlinks the
\* node, decrements the counter of the list it was in and resets its access
\* count to 0, so a frame made evictable again after fewer than k_ new
\* accesses enters the history list (at its front), not the buffer list.
C29_SetEvictable ==
  [][\A f \in ReplacerFrames, on \in BOOLEAN :
       SetEvictableCall(f, on) =>
         LET r == replacer_
             q == replacer_'
         IN  /\ (~Tracked(r, f) \/ r.entries_[f].evictable_ = on) => q = r
             /\ (IsEvictable(r, f) /\ ~on) =>
                  /\ q.entries_[f] = [value_ |-> 0, evictable_ |-> FALSE]
                  /\ ~InSeq(q.history, f) /\ ~InSeq(q.buffer, f)
                  /\ Others(q, f) = Others(r, f)
                  /\ q.curr_history_size_ =
                       r.curr_history_size_ - (IF InSeq(r.history, f) THEN 1 ELSE 0)
                  /\ q.curr_buffer_size_ =
                       r.curr_buffer_size_ - (IF InSeq(r.buffer, f) THEN 1 ELSE 0)
                  /\ AccessCount(access_log', f) = 0
             /\ (Tracked(r, f) /\ ~r.entries_[f].evictable_ /\ on
                   /\ AccessCount(access_log, f) < r.k_) =>
                  /\ q.history # <<>> /\ q.history[1] = f
                  /\ ~InSeq(q.buffer, f)]_vars

\* a frame that was made evictable again without a new access is the front of
\* the history list, while a frame with k_ accesses is in the buffer list
C29_Witness ==
  \E f \in ReplacerFrames :
    /\ IsEvictable(replacer_, f)
    /\ replacer_.entries_[f].value_ = 0
    /\ replacer_.history = <<f>>
    /\ replacer_.buffer # <<>>
    /\ ret = RetBool(TRUE)


SlotsOf(t, bn) == {i \in 0 .. (Len(t.dir) - 1) : t.dir[i + 1] = bn}

\* the buckets the directory references
Referenced(t) == {t.dir[j] : j \in 1 .. Len(t.dir)}

WellFormed(t) ==
  /\ Len(t.dir) = Pow2(t.global_depth)
  /\ \A bn \in Referenced(t) :
       LET b == t.buckets[bn]
       IN  /\ b.depth <= t.global_depth
           /\ Len(b.list) <= t.bucket_size_
           /\ Cardinality(SlotsOf(t, bn)) = Pow2(t.global_depth - b.depth)
           /\ \A i, j \in SlotsOf(t, bn) : i % Pow2(b.depth) = j % Pow2(b.depth)
           /\ \A e \in 1 .. Len(b.list) :
                t.dir[(Hash(b.list[e][1]) % Pow2(t.global_depth)) + 1] = bn
  /\ t.num_buckets = Cardinality(Referenced(t))

\* C31: after every Insert and Remove the directory has 2^global_depth slots;
\* every bucket has local depth <= global depth and at most bucket_size
\* entries; a bucket of local depth d is referenced by exactly
\* 2^(global_depth - d) slots, which agree on their low d bits; every stored
\* key lies in the bucket of slot hash(key) mod 2^global_depth; GetNumBuckets
\* is the number of distinct buckets the directory references, and a split
\* (of the full bucket of any key) adds exactly one.
C31_HashStructure ==
  ~page_table_.looping =>
    /\ WellFormed(page_table_)
    /\ \A key \in HashKeys :
         BucketIsFull(page_table_.buckets[GetIndexBucket(page_table_, IndexOf(page_table_, key))]) =>
           LET t == SplitBucket(page_table_, key)
           IN  /\ t.num_buckets = page_table_.num_buckets + 1
               /\ Cardinality(Referenced(t)) = Cardinality(Referenced(page_table_)) + 1

\* a call returned to a table of global depth 2 or more in which a bucket of
\* smaller local depth is shared by several slots, three keys are stored and
\* one bucket is full
C31_Witness ==
  /\ ~page_table_.looping
  /\ page_table_.global_depth >= 2
  /\ \E bn \in Referenced(page_table_) :
       page_table_.buckets[bn].depth < page_table_.global_depth
  /\ \E bn \in Referenced(page_table_) : BucketIsFull(page_table_.buckets[bn])
  /\ Cardinality({key \in HashKeys : latest[key] # NoFrame}) >= 3
  /\ page_table_.num_buckets >= 3


(***************************************************************************)
(* The steps of Insert and Remove taken on the trees the operations reach. *)
(***************************************************************************)
\* the internal pages reachable from the root that reference page_id
ParentsOf(t, page_id) ==
  {p \in ReachablePages(t) :
     ~t.pages[p].is_leaf /\ IndexAtOfValue(t.pages[p], page_id) # INVALID_INDEX_ID}

\* Insert(k, v) finds a leaf without k that is full: InsertLeafPage calls
\* SplitLeafPage
SplitsLeaf(t, k) ==
  /\ ~IsEmpty(t)
  /\ IsTreePage(t, FindLeafPage(t, k))
  /\ LeafFind(t.pages[FindLeafPage(t, k)], k) = INVALID_INDEX_ID
  /\ t.pages[FindLeafPage(t, k)].size + 1 > t.pages[FindLeafPage(t, k)].max_size

\* the tree as InsertLeafPage hands it to SplitLeafPage
BeforeSplit(t, k) ==
  [t EXCEPT !.pages[FindLeafPage(t, k)] = InsertDataToPage(@, k, 0)]

\* the upper half went to the new leaf, the lower half stayed, the chain is
\* relinked
HalvesAndChain(t, s, old_id, new_id) ==
  LET page == t.pages[old_id]
      half == page.size \div 2
  IN  /\ IsTreePage(s, new_id)
      /\ s.pages[new_id].is_leaf
      /\ s.pages[old_id].size = half
      /\ s.pages[new_id].size = page.size - half
      /\ \A i \in 0 .. (half - 1) :
           /\ KeyAt(s.pages[old_id], i) = KeyAt(page, i)
           /\ ValueAt(s.pages[old_id], i) = ValueAt(page, i)
      /\ \A i \in half .. (page.size - 1) :
           /\ KeyAt(s.pages[new_id], i - half) = KeyAt(page, i)
           /\ ValueAt(s.pages[new_id], i - half) = ValueAt(page, i)
      /\ s.pages[new_id].next_page_id = page.next_page_id
      /\ s.pages[old_id].next_page_id = new_id

\* the split of a root leaf makes a new internal root over the two leaves
NewRootOver(t, s, old_id, new_id) ==
  old_id = t.root_page_id_ =>
    /\ s.root_page_id_ # old_id
    /\ IsTreePage(s, s.root_page_id_)
    /\ s.header = s.root_page_id_
    /\ LET root == s.pages[s.root_page_id_]
       IN  /\ ~root.is_leaf
           /\ root.size = 2
           /\ root.parent_page_id = INVALID_PAGE_ID
           /\ ValueAt(root, 0) = old_id
           /\ KeyAt(root, 1) = KeyAt(s.pages[new_id], 0)
           /\ ValueAt(root, 1) = new_id
    /\ s.pages[old_id].parent_page_id = s.root_page_id_
    /\ s.pages[new_id].parent_page_id = s.root_page_id_

\* the page that references the split leaf gets the new leaf's first key as
\* separator for the new leaf
SeparatorInParent(t, s, old_id, new_id) ==
  \A p \in ParentsOf(t, old_id) :
    \E i \in 1 .. (s.pages[p].size - 1) :
      /\ ValueAt(s.pages[p], i) = new_id
      /\ KeyAt(s.pages[p], i) = KeyAt(s.pages[new_id], 0)

\* C32: when an Insert makes a leaf's size exceed leaf_max_size, the entries
\* [size/2, size) move to a new leaf and the old leaf keeps [0, size/2); the
\* chain is relinked new.next = old.next, old.next = new; the new leaf's first
\* key is inserted into the parent as separator for the new leaf; the split
\* of a root leaf creates a new internal root with exactly the entries
\* (sentinel, old) and (new.first_key, new), parent of both leaves, whose id
\* is recorded in the header page.
C32_LeafSplit ==
  ~tree.crashed =>
    \A k \in TreeKeys :
      SplitsLeaf(tree, k) =>
        LET t      == BeforeSplit(tree, k)
            old_id == FindLeafPage(tree, k)
            new_id == NewPageId(tree)
            s      == SplitLeafPage(t, old_id)[1]
        IN  /\ ~s.crashed
            /\ HalvesAndChain(t, s, old_id, new_id)
            /\ NewRootOver(t, s, old_id, new_id)
            /\ SeparatorInParent(t, s, old_id, new_id)


\* Remove(k) finds k in a leaf that is not the root and falls below min_size
\* without it: Remove calls SolveOverflow for the leaf
Underflows(t, k) ==
  /\ ~IsEmpty(t)
  /\ IsTreePage(t, FindLeafPage(t, k))
  /\ LeafFind(t.pages[FindLeafPage(t, k)], k) # INVALID_INDEX_ID
  /\ FindLeafPage(t, k) # t.root_page_id_
  /\ t.pages[FindLeafPage(t, k)].size - 1 < GetMinSize(t.pages[FindLeafPage(t, k)])

\* the tree as Remove hands it to SolveOverflow: the entry of k shifted out of
\* its leaf
AfterCut(t, k) ==
  LET leaf_id == FindLeafPage(t, k)
      leaf    == t.pages[leaf_id]
  IN  [t EXCEPT !.pages[leaf_id] =
         [ShiftLeftLoop(leaf, LeafFind(leaf, k) + 1) EXCEPT !.size = leaf.size - 1]]

\* the page the node's parent pointer names references the node
HasParent(t, node_id) ==
  /\ IsTreePage(t, t.pages[node_id].parent_page_id)
  /\ ~t.pages[t.pages[node_id].parent_page_id].is_leaf
  /\ IndexAtOfValue(t.pages[t.pages[node_id].parent_page_id], node_id) # INVALID_INDEX_ID

\* the index in the parent of the sibling SolveOverflow chooses: the left
\* neighbour if there is one, else the right neighbour
SiblingIndex(t, node_id) ==
  LET at == IndexAtOfValue(t.pages[t.pages[node_id].parent_page_id], node_id)
  IN  IF at - 1 >= 0 THEN at - 1 ELSE at + 1

\* the page id of that sibling
SiblingOf(t, node_id) ==
  ValueAt(t.pages[t.pages[node_id].parent_page_id], SiblingIndex(t, node_id))

\* SolveOverflow of the node has a sibling that can lend
Borrows(t, node_id) ==
  /\ HasParent(t, node_id)
  /\ SiblingIndex(t, node_id) < t.pages[t.pages[node_id].parent_page_id].size
  /\ IsTreePage(t, SiblingOf(t, node_id))
  /\ isRedistribute(t.pages[SiblingOf(t, node_id)])

\* the keys a page holds
KeysOf(page) == {KeyAt(page, i) : i \in 0 .. (page.size - 1)}

\* one entry went from the sibling to the node, and the parent's separator is
\* the first key of the right one of the two
Borrowed(t, s, node_id) ==
  LET sib_id == SiblingOf(t, node_id)
      parent == t.pages[node_id].parent_page_id
      at     == IndexAtOfValue(t.pages[parent], node_id)
      right  == IF SiblingIndex(t, node_id) < at THEN node_id ELSE sib_id
      r_at   == IF SiblingIndex(t, node_id) < at THEN at ELSE SiblingIndex(t, node_id)
  IN  /\ s.pages[sib_id].size = t.pages[sib_id].size - 1
      /\ s.pages[node_id].size = t.pages[node_id].size + 1
      /\ KeysOf(s.pages[sib_id]) \cup KeysOf(s.pages[node_id])
           = KeysOf(t.pages[sib_id]) \cup KeysOf(t.pages[node_id])
      /\ KeysOf(s.pages[sib_id]) \cap KeysOf(s.pages[node_id]) = {}
      /\ KeyAt(s.pages[parent], r_at) = KeyAt(s.pages[right], 0)

\* C33: when the chosen sibling (the left one if it exists, else the right
\* one) of an underflowing node has more than min_size entries, exactly one
\* entry moves from the sibling to the node: the sibling's size drops by 1, the
\* node's size grows by 1, whichever side the sibling is on; the keys of the
\* two leaves together are unchanged, and the parent's separator becomes the
\* new first key of the right one of the two.
C33_Redistribute ==
  (~tree.crashed /\ InSlots(tree)) =>
    \A k \in TreeKeys :
      (Underflows(tree, k) /\ Borrows(AfterCut(tree, k), FindLeafPage(tree, k))) =>
        LET t == AfterCut(tree, k)
            s == SolveOverflow(t, FindLeafPage(tree, k))
        IN  ~s.crashed /\ Borrowed(t, s, FindLeafPage(tree, k))


\* SolveOverflow of the node has a sibling that cannot lend, and the two fit
\* into one page
Merges(t, node_id) ==
  /\ HasParent(t, node_id)
  /\ SiblingIndex(t, node_id) < t.pages[t.pages[node_id].parent_page_id].size
  /\ IsTreePage(t, SiblingOf(t, node_id))
  /\ ~isRedistribute(t.pages[SiblingOf(t, node_id)])
  /\ IF SiblingIndex(t, node_id) < IndexAtOfValue(t.pages[t.pages[node_id].parent_page_id], node_id)
     THEN isCoalesce(t.pages[SiblingOf(t, node_id)], t.pages[node_id])
     ELSE isCoalesce(t.pages[node_id], t.pages[SiblingOf(t, node_id)])

\* the left and the right one of the node and its sibling
LeftOf(t, node_id) ==
  IF SiblingIndex(t, node_id) < IndexAtOfValue(t.pages[t.pages[node_id].parent_page_id], node_id)
  THEN SiblingOf(t, node_id) ELSE node_id

RightOf(t, node_id) ==
  IF SiblingIndex(t, node_id) < IndexAtOfValue(t.pages[t.pages[node_id].parent_page_id], node_id)
  THEN node_id ELSE SiblingOf(t, node_id)

\* the entries of the right leaf stand behind those of the left leaf, which
\* takes over the right leaf's successor
Appended(t, s, l_id, r_id) ==
  /\ s.pages[l_id].size = t.pages[l_id].size + t.pages[r_id].size
  /\ \A j \in 0 .. (t.pages[l_id].size - 1) :
       /\ KeyAt(s.pages[l_id], j) = KeyAt(t.pages[l_id], j)
       /\ ValueAt(s.pages[l_id], j) = ValueAt(t.pages[l_id], j)
  /\ \A j \in 0 .. (t.pages[r_id].size - 1) :
       /\ KeyAt(s.pages[l_id], t.pages[l_id].size + j) = KeyAt(t.pages[r_id], j)
       /\ ValueAt(s.pages[l_id], t.pages[l_id].size + j) = ValueAt(t.pages[r_id], j)
  /\ s.pages[l_id].next_page_id = t.pages[r_id].next_page_id

\* the parent lost its entry for the right page, the entries behind it moved
\* one slot to the left
EntryRemoved(t, s, parent_id, r_id) ==
  LET at == IndexAtOfValue(t.pages[parent_id], r_id)
  IN  /\ s.pages[parent_id].size = t.pages[parent_id].size - 1
      /\ \A j \in 0 .. (t.pages[parent_id].size - 2) :
           /\ ValueAt(s.pages[parent_id], j) = ValueAt(t.pages[parent_id], IF j < at THEN j ELSE j + 1)
           /\ j > 0 =>
                KeyAt(s.pages[parent_id], j) = KeyAt(t.pages[parent_id], IF j < at THEN j ELSE j + 1)

\* BufferPoolManagerInstance::DeletePgImp answers true for a page of the tree
\* only when nobody holds a pin on it
DeletePageSucceeds(t, page_id) == IsTreePage(t, page_id) /\ t.pin[page_id] = 0

\* the pins held when SolveOverflow calls Coalesce for the leaf of k: the leaf
\* (FindLeafPage), its parent (line 289) and the sibling fetched for the merge
PinsAtCoalesce(t, node_id) ==
  FetchPage(FetchPage(FetchPage(ReleasePins(t), node_id), t.pages[node_id].parent_page_id),
            SiblingOf(t, node_id))

\* C34: when the sibling cannot lend, all entries of the right participant are
\* appended to the left one (left.size becomes left.size + right.size, for
\* every combination of the two sizes), leaves are relinked left.next =
\* right.next, the parent's entry for the right participant is removed by
\* left-shifting with the parent's size decremented by 1, and the right
\* participant's page is deleted from the buffer pool (DeletePage returns true).
C34_Coalesce ==
  (~tree.crashed /\ InSlots(tree)) =>
    \A k \in TreeKeys :
      (Underflows(tree, k) /\ Merges(AfterCut(tree, k), FindLeafPage(tree, k))) =>
        LET t      == AfterCut(tree, k)
            node   == FindLeafPage(tree, k)
            parent == t.pages[node].parent_page_id
            \* the merge alone: the root is not demoted in this step
            s      == Coalesce(t, LeftOf(t, node), RightOf(t, node), parent,
                               IndexAtOfValue(t.pages[parent], RightOf(t, node)))
        IN  /\ Appended(t, s, LeftOf(t, node), RightOf(t, node))
            /\ EntryRemoved(t, s, parent, RightOf(t, node))
            /\ DeletePageSucceeds(PinsAtCoalesce(t, node), RightOf(t, node))


\* Remove(k) merges the only two children of the root
MergesUnderRoot(t, k) ==
  /\ Underflows(t, k)
  /\ Merges(AfterCut(t, k), FindLeafPage(t, k))
  /\ t.pages[FindLeafPage(t, k)].parent_page_id = t.root_page_id_
  /\ t.pages[t.root_page_id_].size = 2

\* C35: when a merge leaves the root internal node with a single child, that
\* child becomes the root with parent_page_id = INVALID_PAGE_ID and the new
\* root id is written to the header page; after any Remove the root is never
\* an internal node with fewer than 2 children, and the header page's record
\* always equals root_page_id_.
C35_RootDemotion ==
  /\ [](~tree.crashed =>
          /\ tree.header = tree.root_page_id_
          /\ (IsTreePage(tree, tree.root_page_id_) /\ ~tree.pages[tree.root_page_id_].is_leaf) =>
               tree.pages[tree.root_page_id_].size >= 2)
  /\ [][\A k \in TreeKeys :
          (BPlusTreeRemove(k) /\ MergesUnderRoot(tree, k) /\ ~tree'.crashed) =>
            LET kept == LeftOf(AfterCut(tree, k), FindLeafPage(tree, k))
            IN  /\ tree'.root_page_id_ = kept
                /\ tree'.pages[kept].parent_page_id = INVALID_PAGE_ID
                /\ tree'.header = kept]_vars


(***************************************************************************)
(* The two lists of the replacer (SpecReplacer).                           *)
(***************************************************************************)
\* no frame id stands twice in the list
NoRepeat(seq) == \A i, j \in 1 .. Len(seq) : seq[i] = seq[j] => i = j

\* C36: a tracked frame is linked in the history list iff it is evictable with
\* access count < k_, in the buffer list iff it is evictable with access count
\* >= k_, in neither iff it is non-evictable; no frame is in both lists, only
\* tracked frames are linked; curr_history_size_ and curr_buffer_size_ are the
\* two lists' lengths; the tail Evict takes (dummy_buffer_->prev_ for history,
\* dummy_history_->prev_ for buffer) is never a dummy node while the
\* corresponding counter is not zero.
C36_ListInvariant ==
  LET r == replacer_
  IN  /\ \A f \in DOMAIN r.entries_ :
           /\ InSeq(r.history, f) <=> (r.entries_[f].evictable_ /\ r.entries_[f].value_ < r.k_)
           /\ InSeq(r.buffer, f) <=> (r.entries_[f].evictable_ /\ r.entries_[f].value_ >= r.k_)
           /\ ~(InSeq(r.history, f) /\ InSeq(r.buffer, f))
      /\ \A i \in 1 .. Len(r.history) : Tracked(r, r.history[i])
      /\ \A i \in 1 .. Len(r.buffer) : Tracked(r, r.buffer[i])
      /\ NoRepeat(r.history) /\ NoRepeat(r.buffer)
      /\ r.curr_history_size_ = Len(r.history)
      /\ r.curr_buffer_size_ = Len(r.buffer)
      /\ Size(r) > 0 => EvictVictim(r) # NoFrame
      /\ ~r.broken

\* the three frames are tracked: one in each list, and one not evictable that
\* has accesses on record
C36_Witness ==
  /\ Len(replacer_.history) = 1
  /\ Len(replacer_.buffer) = 1
  /\ \E f \in DOMAIN replacer_.entries_ :
       ~replacer_.entries_[f].evictable_ /\ replacer_.entries_[f].value_ >= replacer_.k_

(***************************************************************************)
(* The replacer inside the buffer pool (specification Spec).  The          *)
(* constructor builds it with pool_size frames, and only UnpinPgImp calls  *)
(* SetEvictable(frame, true).                                              *)
(***************************************************************************)

\* a step by which UnpinPgImp hands the frame of page_id to the replacer
UnpinHandsOver(page_id) ==
  /\ UnpinAccepts(page_id)
  /\ UnpinMakesEvictable(pages_[FrameOf(page_id)].pin_count_ - 1)
  /\ \E d \in BOOLEAN : UnpinPgImp(page_id, d)

\* a step by which frame f stops being evictable
LeavesReplacer(f) == IsEvictable(replacer_, f) /\ ~IsEvictable(replacer_', f)

\* the steps that may take frame f out of the replacer: a miss that obtained f
\* from GetAvailableFrame's Evict, a FetchPgImp that pins the page f holds, or
\* a DeletePgImp of that page
TakenByPool(f) ==
  \/ NewPgImp /\ ret' = RetPage(f)
  \/ \E p \in PageIds : FetchPgImp(p) /\ ret' = RetPage(f)
  \/ \E p \in PageIds : Resident(p) /\ FrameOf(p) = f /\ DeletePgImp(p)

\* C37: in a pool whose replacer has capacity pool_size the eviction loop of
\* SetEvictable(f, true) never runs: when UnpinPgImp makes a frame evictable
\* Size() is below pool_size and no other frame is dropped; a frame leaves the
\* replacer only by GetAvailableFrame's Evict, a re-pin or DeletePage; every
\* resident page with pin count 0 is evictable.
C37_NoProactiveEviction ==
  /\ [](/\ replacer_.replacer_size_ = PoolSize
        /\ \A p \in PageIds :
             (Resident(p) /\ pages_[FrameOf(p)].pin_count_ = 0) =>
               IsEvictable(replacer_, FrameOf(p)))
  /\ [][/\ \A p \in PageIds :
            UnpinHandsOver(p) =>
              /\ Size(replacer_) < PoolSize
              /\ EvictWhileFull(replacer_) = replacer_
              /\ Size(replacer_') = Size(replacer_) + 1
              /\ \A g \in Frames : IsEvictable(replacer_, g) => IsEvictable(replacer_', g)
        /\ \A f \in Frames : LeavesReplacer(f) => TakenByPool(f)]_vars

\* every frame of the pool holds an unpinned page and is evictable: the last
\* unpin found Size() = pool_size - 1
C37_Witness ==
  /\ Size(replacer_) = PoolSize
  /\ \A f \in Frames :
       /\ pages_[f].page_id_ # INVALID_PAGE_ID
       /\ pages_[f].pin_count_ = 0
       /\ Resident(pages_[f].page_id_)
       /\ IsEvictable(replacer_, f)
  /\ ret = RetBool(TRUE)

(***************************************************************************)
(* Termination of ExtendibleHashTable::Insert (specification SpecHash).    *)
(***************************************************************************)

\* the keys stored in table t
StoredKeys(t) == {key \in HashKeys : TableContains(t, key)}

\* whether the low d bits of the hashes tell the keys of S apart
Separates(d, S) ==
  \A a, b \in S : a # b => Hash(a) % Pow2(d) # Hash(b) % Pow2(d)

\* the number of hash bits needed to separate the keys of S
SeparatingBits(S) ==
  CHOOSE d \in 0 .. (MaxKey + 1) :
    Separates(d, S) /\ \A e \in 0 .. (d - 1) : ~Separates(e, S)

\* C38: every Insert(k, v) ends after finitely many splits, for a new key and
\* for a key already stored in a full bucket, with a bucket_size of 1 included,
\* and it leaves the global depth no larger than the number of hash bits needed
\* to separate the stored keys (or than it was before).
C38_InsertTerminates ==
  [][\A key \in HashKeys, value \in HashValues :
       HashInsert(key, value) =>
         /\ ~page_table_'.looping
         /\ \/ page_table_'.global_depth = page_table_.global_depth
            \/ page_table_'.global_depth <= SeparatingBits(StoredKeys(page_table_'))]_vars

(***************************************************************************)
(* Parent pointers (specification SpecTree).                               *)
(***************************************************************************)

\* C39: after every completed Insert or Remove the root has parent_page_id
\* INVALID_PAGE_ID and every child referenced by an entry of an internal page
\* reachable from the root has that page as its parent_page_id, the children
\* moved by an internal split included.
C39_ParentPointers ==
  ~tree.crashed =>
    /\ IsTreePage(tree, tree.root_page_id_) =>
         tree.pages[tree.root_page_id_].parent_page_id = INVALID_PAGE_ID
    /\ \A p \in ReachablePages(tree) :
         ~tree.pages[p].is_leaf =>
           \A i \in 0 .. (tree.pages[p].size - 1) :
             IsTreePage(tree, ValueAt(tree.pages[p], i)) =>
               tree.pages[ValueAt(tree.pages[p], i)].parent_page_id = p

(***************************************************************************)
(* Remove from a leaf that keeps min_size entries (specification           *)
(* SpecTreePins).                                                          *)
(***************************************************************************)

\* C40: Remove(k) of a key stored in a non-root leaf that keeps at least
\* min_size entries completes: it changes no page but that leaf, leaves the
\* leaf unpinned and holds no other pin, and every UnpinPage it issues names a
\* page it fetched (the UnpinPage that ends Remove names a defined, pinned
\* page).
C40_RemoveWithoutUnderflow ==
  [][\A k \in TreeKeys :
       (BPlusTreeRemovePins(k) /\ SkipsSolveOverflow(tree, k)) =>
          /\ ~tree'.crashed
          /\ ~tree'.stray
          /\ \A p \in DOMAIN tree'.pin : tree'.pin[p] = 0
          /\ \A p \in DOMAIN tree.pages :
               p # FindLeafPage(tree, k) => tree'.pages[p] = tree.pages[p]
          /\ tree'.root_page_id_ = tree.root_page_id_]_vars

====
